---- MODULE Spec2Model ----
(***************************************************************************)
(* Document ingestion pipeline of Daisentaur/PKY:                          *)
(*   core/security_checks.py     SecurityValidator                         *)
(*   core/document_processor.py  DocumentProcessor                         *)
(*   core/parallel_processing.py ParallelProcessor                         *)
(*   core/app.py                 upload_config, upload_documents,          *)
(*                               get_session                               *)
(*   utilities/error_handler.py  FileLimitHandler                          *)
(*   config/settings.py          Settings                                  *)
(*                                                                         *)
(* Bytes and characters are integers (byte values, Unicode code points);   *)
(* byte strings and texts are tuples of them.                              *)
(***************************************************************************)
EXTENDS Integers, Sequences, FiniteSets, TLC

VARIABLES
    v_file,      \* validate_file: the file being validated
    v_pc,        \* validate_file: index into `checks` of the next check, 0 once returned
    v_ran,       \* validate_file: the checks called so far, in call order
    v_result,    \* validate_file: the returned (valid, message)
    deadline,    \* `timeout` seconds have passed since as_completed was called
    dp_files,    \* DocumentProcessor.process_batch: file_paths
    dp_fut,      \* ... the futures of future_to_file, in submission order
    dp_tmp,      \* ... the workers whose temporary copy exists on disk
    dp_results,  \* ... results
    dp_i,        \* ... position of `for future in future_to_file`
    dp_pc,       \* ... "idle", "collect" or "returned"
    pp_tasks,    \* ParallelProcessor.process_batch: tasks
    pp_rlimit,   \* ... the process may set RLIMIT_AS as _safe_execute does
    pp_fut,      \* ... the futures of future_to_id, in submission order
    pp_yielded,  \* ... the futures as_completed has yielded
    pp_results,  \* ... results
    pp_pc,       \* ... "idle", "collect", "shutdown", "returned" or "raised"
    rlimit_as,   \* the soft RLIMIT_AS of the process: "RLIM_INFINITY" or "MAX_MEMORY"
    ct_in,       \* _clean_text: the text it was first called with
    ct_text,     \* ... the local `text`
    ct_first,    \* ... what the first call returned
    ct_pc,       \* ... the next substitution (1, 2, 3), 0 before and after a call
    ct_calls,    \* ... the number of calls that have returned
    pdf_doc,     \* _process_pdf: the document at file_path
    pdf_pc,      \* ... "idle", "native", "ocr", "returned" or "raised"
    pdf_page,    \* ... the index of the next page of the running loop
    pdf_text,    \* ... `text` in the native loop, `full_text` in _run_ocr
    pdf_handler, \* ... control is in the except clause
    pdf_ocr,     \* ... the number of calls of _run_ocr
    pdf_out,     \* ... the returned text or the raised exception
    tab_file,    \* _process_csv, _process_excel: the table file at file_path
    tab_df,      \* ... the local `df`
    tab_pc,      \* ... "idle", "read", "drop", "render" or "returned"
    tab_out,     \* ... the returned text
    cf_splits,   \* upload_documents, lines 396-407: splits
    cf_i,        \* ... position of `for doc in splits`
    cf_kept,     \* ... filtered_splits
    cf_text,     \* ... full_text
    cf_pc,       \* ... "idle", "filter" or "joined"
    now,         \* the web layer: datetime.now(), in hours
    sessions,    \* ... the module-level dict sessions: session_id -> expiry
    db,          \* ... the rows of document_sessions: session_id -> document_metadata
    born,        \* ... when upload_config created each session (history)
    resp         \* ... the last response: endpoint, session_id, outcome

valVars == <<v_file, v_ran, v_pc, v_result>>
dpVars == <<dp_files, dp_fut, dp_tmp, dp_results, dp_i, dp_pc>>
ppVars == <<pp_tasks, pp_rlimit, pp_fut, pp_yielded, pp_results, pp_pc, rlimit_as>>

cleanVars == <<ct_in, ct_text, ct_first, ct_pc, ct_calls>>
pdfVars == <<pdf_doc, pdf_pc, pdf_page, pdf_text, pdf_handler, pdf_ocr, pdf_out>>
tabVars == <<tab_file, tab_df, tab_pc, tab_out>>
\* the state of the functions of the upload pipeline that are stepped on their own
chunkVars == <<cf_splits, cf_i, cf_kept, cf_text, cf_pc>>
sessVars == <<now, sessions, db, born, resp>>
appVars == <<tabVars, chunkVars, sessVars>>
\* the state of the extractor functions that are stepped on their own
funVars == <<cleanVars, pdfVars, appVars>>

vars == <<valVars, deadline, dpVars, ppVars, funVars>>

\* _clean_text is not being stepped
CleanIdle ==
    /\ ct_in = <<>> /\ ct_text = <<>> /\ ct_first = <<>> /\ ct_pc = 0 /\ ct_calls = 0

\* _process_pdf is not being stepped
PdfIdle ==
    /\ pdf_doc = [opens |-> FALSE, pages |-> <<>>]
    /\ pdf_pc = "idle" /\ pdf_page = 1 /\ pdf_text = <<>>
    /\ pdf_handler = FALSE /\ pdf_ocr = 0
    /\ pdf_out = [ok |-> FALSE, text |-> <<>>, err |-> "pending"]

\* no table extractor is being stepped
TabIdle ==
    /\ tab_file = [ext |-> ".csv", ncols |-> 0, lines |-> <<>>]
    /\ tab_df = [cols |-> <<>>, rows |-> <<>>]
    /\ tab_pc = "idle" /\ tab_out = <<>>

\* the chunk filter is not being stepped
ChunkIdle ==
    /\ cf_splits = <<>> /\ cf_i = 1 /\ cf_kept = <<>> /\ cf_text = <<>> /\ cf_pc = "idle"

\* the web application has served no request
SessIdle ==
    /\ now = 0 /\ sessions = <<>> /\ db = <<>> /\ born = <<>>
    /\ resp = [op |-> "none", id |-> "none", outcome |-> "none", at |-> 0]

AppIdle == TabIdle /\ ChunkIdle /\ SessIdle

FunIdle == CleanIdle /\ PdfIdle /\ AppIdle

(***************************************************************************)
(* Settings (config/settings.py)                                           *)
(***************************************************************************)
MAX_FILE_SIZE == 104857600

(***************************************************************************)
(* Byte strings                                                            *)
(***************************************************************************)
StartsWith(s, p) == Len(p) <= Len(s) /\ \A i \in 1..Len(p) : s[i] = p[i]

\* b'%PDF-'
SIG_PDF == <<37, 80, 68, 70, 45>>
\* b'\x50\x4B\x03\x04'
SIG_ZIP == <<80, 75, 3, 4>>
\* b'\xFF\xD8\xFF'
SIG_JPG == <<255, 216, 255>>
\* b'\x89PNG'
SIG_PNG == <<137, 80, 78, 71>>

(***************************************************************************)
(* Text: bytes.decode('utf-8', errors=...) and the character classes of    *)
(* Python's re on str patterns                                             *)
(***************************************************************************)
IsCont(b) == b >= 128 /\ b <= 191

\* bytes.decode('utf-8', errors='ignore' | 'replace') from position i on.
\* One- and two-byte sequences are decoded; every other byte is an invalid
\* sequence of length one (the inputs hold no lead byte 0xE0..0xF4), dropped
\* under 'ignore' and turned into U+FFFD under 'replace'.
RECURSIVE Utf8Decode(_, _, _)
Utf8Decode(b, i, replace) ==
    IF i > Len(b) THEN <<>>
    ELSE IF b[i] < 128 THEN <<b[i]>> \o Utf8Decode(b, i + 1, replace)
    ELSE IF b[i] >= 194 /\ b[i] <= 223 /\ i < Len(b) /\ IsCont(b[i + 1])
         THEN <<(b[i] - 192) * 64 + (b[i + 1] - 128)>> \o Utf8Decode(b, i + 2, replace)
    ELSE (IF replace THEN <<65533>> ELSE <<>>) \o Utf8Decode(b, i + 1, replace)

\* \s of a str pattern
IsSpace(c) == c \in (9..13) \cup (28..32) \cup {133, 160}

\* \w of a str pattern (ASCII and Latin-1 letters)
IsWord(c) ==
    \/ c \in 48..57
    \/ c \in 65..90
    \/ c = 95
    \/ c \in 97..122
    \/ c \in {170, 181, 186}
    \/ (c \in 192..255 /\ c \notin {215, 247})

\* re.IGNORECASE on the characters the patterns name
Lower(c) ==
    IF c \in 65..90 THEN c + 32
    ELSE IF c = 222 THEN 254
    ELSE IF c = 376 THEN 255
    ELSE c

\* the literal w (lower case) matches s at position i, ignoring case
MatchAt(s, i, w) ==
    /\ i >= 1
    /\ i + Len(w) - 1 <= Len(s)
    /\ \A k \in 1..Len(w) : Lower(s[i + k - 1]) = w[k]

\* \b at the gap before position i (1..Len(s)+1)
Boundary(s, i) ==
    LET before == i > 1 /\ IsWord(s[i - 1])
        after == i <= Len(s) /\ IsWord(s[i])
    IN  before # after

\* every character of s[i..j-1] satisfies \s
AllSpace(s, i, j) == \A k \in i..(j - 1) : IsSpace(s[k])

(***************************************************************************)
(* SecurityValidator (core/security_checks.py)                             *)
(***************************************************************************)
\* The regular expressions of MALWARE_SIGNATURES, by their source text.
MALWARE_SIGNATURES ==
    << "<\\s*script[^>]*>.*<\\s*/\\s*script\\s*>",
       "\\b(eval|system|exec|passthru)\\s*\\(",
       "\\b(union\\s+select|drop\\s+table)\\b",
       "\\x00|\\xFF|\\xFE" >>

W_script == <<115, 99, 114, 105, 112, 116>>
W_eval == <<101, 118, 97, 108>>
W_system == <<115, 121, 115, 116, 101, 109>>
W_exec == <<101, 120, 101, 99>>
W_passthru == <<112, 97, 115, 115, 116, 104, 114, 117>>
W_union == <<117, 110, 105, 111, 110>>
W_select == <<115, 101, 108, 101, 99, 116>>
W_drop == <<100, 114, 111, 112>>
W_table == <<116, 97, 98, 108, 101>>

\* <\s*script[^>]*>.*<\s*/\s*script\s*>   ('.' matches no newline)
SearchScriptTag(s) ==
    \E a \in 1..Len(s) :
      /\ s[a] = 60
      /\ \E b \in (a + 1)..Len(s) :
           /\ AllSpace(s, a + 1, b)
           /\ MatchAt(s, b, W_script)
           /\ \E c \in (b + 6)..Len(s) :
                /\ s[c] = 62
                /\ \A k \in (b + 6)..(c - 1) : s[k] # 62
                /\ \E d \in (c + 1)..Len(s) :
                     /\ s[d] = 60
                     /\ \A k \in (c + 1)..(d - 1) : s[k] # 10
                     /\ \E e \in (d + 1)..Len(s) :
                          /\ AllSpace(s, d + 1, e)
                          /\ s[e] = 47
                          /\ \E g \in (e + 1)..Len(s) :
                               /\ AllSpace(s, e + 1, g)
                               /\ MatchAt(s, g, W_script)
                               /\ \E h \in (g + 6)..Len(s) :
                                    /\ AllSpace(s, g + 6, h)
                                    /\ s[h] = 62

\* \b(eval|system|exec|passthru)\s*\(
SearchShellCall(s) ==
    \E i \in 1..Len(s) : \E w \in {W_eval, W_system, W_exec, W_passthru} :
      /\ Boundary(s, i)
      /\ MatchAt(s, i, w)
      /\ \E j \in (i + Len(w))..Len(s) :
           /\ AllSpace(s, i + Len(w), j)
           /\ s[j] = 40

\* \b(union\s+select|drop\s+table)\b
SearchSql(s) ==
    \E i \in 1..Len(s) : \E p \in {<<W_union, W_select>>, <<W_drop, W_table>>} :
      /\ Boundary(s, i)
      /\ MatchAt(s, i, p[1])
      /\ \E j \in (i + Len(p[1]) + 1)..Len(s) :
           /\ AllSpace(s, i + Len(p[1]), j)
           /\ MatchAt(s, j, p[2])
           /\ Boundary(s, j + Len(p[2]))

\* \x00|\xFF|\xFE : the characters U+0000, U+00FF, U+00FE (of the decoded text)
SearchBinary(s) == \E i \in 1..Len(s) : Lower(s[i]) \in {0, 255, 254}

\* re.search(MALWARE_SIGNATURES[n], s, re.IGNORECASE)
re_search(n, s) ==
    CASE n = 1 -> SearchScriptTag(s)
      [] n = 2 -> SearchShellCall(s)
      [] n = 3 -> SearchSql(s)
      [] n = 4 -> SearchBinary(s)

(***************************************************************************)
(* Files.  A file is [ext, bytes, size]: its lower-cased suffix, its       *)
(* leading bytes, and its size in bytes; the bytes after `bytes`, up to    *)
(* `size`, are spaces (0x20).                                              *)
(***************************************************************************)
\* f.read(n) of a file opened 'rb'
FileRead(f, n) ==
    [i \in 1..(IF f.size < n THEN f.size ELSE n) |->
        IF i <= Len(f.bytes) THEN f.bytes[i] ELSE 32]

\* The bytes a pattern can match in: the leading bytes and one byte of the
\* padding (further spaces neither complete nor break a match).
ScanBytes(f) == IF f.size > Len(f.bytes) THEN f.bytes \o <<32>> ELSE f.bytes

\* b'\x89PNG\r\n\x1a\n'
SIG_PNG8 == SIG_PNG \o <<13, 10, 26, 10>>
\* the PNG signature and the head of the IHDR chunk (length 13, b'IHDR'), which
\* libmagic requires of a PNG image
PNG_IHDR == SIG_PNG8 \o <<0, 0, 0, 13, 73, 72, 68, 82>>
\* b'word/', the member name libmagic looks for in an OOXML container
PART_WORD == <<119, 111, 114, 100, 47>>
\* a ZIP local file header: the signature and 26 bytes of fields (here 0x20)
ZIP_LOCAL == SIG_ZIP \o [i \in 1..26 |-> 32]
\* a local file header whose member name, at offset 30, starts with b'word/'
OOXML_WORD == ZIP_LOCAL \o PART_WORD

\* every MIME type other than the four that mime_map names: the validator only
\* tests the sniffed type for inequality with those four
OTHER_MIME == "application/octet-stream"

\* magic.from_file(file_path, mime=True): libmagic's content sniffing of the
\* leading bytes.  A PDF is known by b'%PDF-', a JPEG by its three signature
\* bytes and one more byte, a PNG by its signature and IHDR chunk, a Word
\* document by the member name at offset 30 of a ZIP local file header.
magic_from_file(f) ==
    LET b == FileRead(f, Len(f.bytes)) IN
    IF StartsWith(b, SIG_PDF) THEN "application/pdf"
    ELSE IF StartsWith(b, SIG_ZIP) /\ Len(b) >= 35 /\ SubSeq(b, 31, 35) = PART_WORD
         THEN "application/vnd.openxmlformats-officedocument.wordprocessingml.document"
    ELSE IF StartsWith(b, SIG_JPG) /\ f.size >= 4 THEN "image/jpeg"
    ELSE IF StartsWith(b, PNG_IHDR) THEN "image/png"
    ELSE OTHER_MIME

mime_map ==
    [e \in {".pdf", ".docx", ".jpg", ".png"} |->
        CASE e = ".pdf" -> "application/pdf"
          [] e = ".docx" -> "application/vnd.openxmlformats-officedocument.wordprocessingml.document"
          [] e = ".jpg" -> "image/jpeg"
          [] e = ".png" -> "image/png"]

Ok == [valid |-> TRUE, message |-> <<>>]
Fail(msg) == [valid |-> FALSE, message |-> msg]

_check_extension_mismatch(f) ==
    LET mime == magic_from_file(f) IN
    IF f.ext \in DOMAIN mime_map /\ mime # mime_map[f.ext]
    THEN Fail(<<"Extension-MIME mismatch", f.ext, mime>>)
    ELSE Ok

_check_malware_patterns(f) ==
    LET content == Utf8Decode(ScanBytes(f), 1, FALSE)
        hits == {n \in 1..Len(MALWARE_SIGNATURES) : re_search(n, content)}
    IN  IF hits # {}
        THEN Fail(<<"Malware pattern detected",
                    MALWARE_SIGNATURES[CHOOSE n \in hits : \A m \in hits : n <= m]>>)
        ELSE Ok

_check_max_size(f) ==
    IF f.size > MAX_FILE_SIZE
    THEN Fail(<<"File exceeds byte limit", "MAX_FILE_SIZE">>)
    ELSE Ok

\* the keys of valid_headers, in insertion order
valid_headers == <<SIG_PDF, SIG_ZIP, SIG_JPG, SIG_PNG>>

_check_magic_numbers(f) ==
    LET header == FileRead(f, 4) IN
    IF \E k \in 1..Len(valid_headers) : StartsWith(header, valid_headers[k])
    THEN Ok
    ELSE Fail(<<"Invalid file header">>)

\* `checks` with the size ceiling tested before the pattern scan
checks_size_first ==
    << "_check_extension_mismatch", "_check_max_size",
       "_check_malware_patterns", "_check_magic_numbers" >>

\* the list `checks` of validate_file
checks ==
    << "_check_extension_mismatch", "_check_malware_patterns",
       "_check_max_size", "_check_magic_numbers" >>

\* check(file_path) for a member of `checks`
RunCheck(name, f) ==
    CASE name = "_check_extension_mismatch" -> _check_extension_mismatch(f)
      [] name = "_check_malware_patterns" -> _check_malware_patterns(f)
      [] name = "_check_max_size" -> _check_max_size(f)
      [] name = "_check_magic_numbers" -> _check_magic_numbers(f)

\* validate_file as a function of the file: the loop from check i on
RECURSIVE ValidateFrom(_, _)
ValidateFrom(f, i) ==
    IF i > Len(checks) THEN [valid |-> TRUE, message |-> <<"File validated">>]
    ELSE LET r == RunCheck(checks[i], f) IN
         IF ~r.valid THEN r ELSE ValidateFrom(f, i + 1)

validate_file(f) == ValidateFrom(f, 1)

(***************************************************************************)
(* The files validate_file is run on                                       *)
(***************************************************************************)
Exts == {".pdf", ".docx", ".txt", ".png", ".jpg", ".jpeg", ".csv", ".xlsx", ".exe"}

Heads ==
    { <<>>, SIG_PDF, SIG_ZIP, OOXML_WORD, SIG_JPG, SIG_PNG, PNG_IHDR }

\* "ab", NUL, 0xFF, 0xFE, "eval(", "<script></script>", "drop table",
\* the UTF-8 encoding of U+00FF
Bodies ==
    { <<>>,
      <<97, 98>>,
      <<0>>,
      <<255>>,
      <<254>>,
      W_eval \o <<40>>,
      <<60>> \o W_script \o <<62, 60, 47>> \o W_script \o <<62>>,
      W_drop \o <<32>> \o W_table,
      <<195, 191>> }

ValFiles ==
    { [ext |-> e, bytes |-> h \o b, size |-> n] :
        e \in Exts, h \in Heads, b \in Bodies, n \in {-1, MAX_FILE_SIZE, MAX_FILE_SIZE + 1} }

\* a size of -1 above stands for "exactly the leading bytes"
SizedFiles(S) ==
    { [f EXCEPT !.size = IF f.size < 0 THEN Len(f.bytes) ELSE f.size] : f \in S }

NoResult == [valid |-> FALSE, message |-> <<"pending">>]

(***************************************************************************)
(* validate_file, one iteration of its loop per step                       *)
(***************************************************************************)
\* no batch call is in progress
BatchIdle ==
    /\ deadline = FALSE
    /\ dp_files = <<>> /\ dp_fut = <<>> /\ dp_tmp = {} /\ dp_results = <<>>
    /\ dp_i = 1 /\ dp_pc = "idle"
    /\ pp_tasks = <<>> /\ pp_rlimit = TRUE /\ pp_fut = <<>> /\ pp_yielded = {}
    /\ pp_results = <<>> /\ pp_pc = "idle" /\ rlimit_as = "RLIM_INFINITY"
    /\ FunIdle

ValInit ==
    /\ v_file \in SizedFiles(ValFiles)
    /\ v_pc = 1
    /\ v_ran = <<>>
    /\ v_result = NoResult
    /\ BatchIdle

\* one iteration of `for check in checks`, and the return after the last
ValidateStep ==
    /\ v_pc \in 1..Len(checks)
    /\ LET r == RunCheck(checks[v_pc], v_file) IN
       /\ v_ran' = Append(v_ran, checks[v_pc])
       /\ IF ~r.valid
          THEN /\ v_result' = r
               /\ v_pc' = 0
          ELSE IF v_pc = Len(checks)
          THEN /\ v_result' = [valid |-> TRUE, message |-> <<"File validated">>]
               /\ v_pc' = 0
          ELSE /\ v_result' = v_result
               /\ v_pc' = v_pc + 1
    /\ UNCHANGED <<v_file, deadline, dpVars, ppVars, funVars>>

ValNext == ValidateStep

SpecVal == ValInit /\ [][ValNext]_vars

(***************************************************************************)
(* Properties of validate_file (SpecVal)                                   *)
(***************************************************************************)
\* the order of the four checks
FixedOrder ==
    << "_check_extension_mismatch", "_check_malware_patterns",
       "_check_max_size", "_check_magic_numbers" >>

FailingChecks(f) == {i \in 1..Len(FixedOrder) : ~RunCheck(FixedOrder[i], f).valid}

\* C8: validate_file calls its checks in the order extension/content agreement,
\* malicious-pattern scan, size ceiling, magic-number confirmation; it returns
\* (False, reason of the first failing check) having called no later check, and
\* returns (True, ...) exactly when all four checks pass.
C8_ValidateFixedOrderShortCircuit ==
    /\ \E k \in 0..Len(FixedOrder) : v_ran = SubSeq(FixedOrder, 1, k)
    /\ v_pc = 0 =>
         LET failing == FailingChecks(v_file) IN
         IF failing = {}
         THEN /\ v_result.valid
              /\ v_ran = FixedOrder
         ELSE LET k == CHOOSE i \in failing : \A j \in failing : i <= j IN
              /\ ~v_result.valid
              /\ v_result.message = RunCheck(FixedOrder[k], v_file).message
              /\ v_ran = SubSeq(FixedOrder, 1, k)

\* C8 witness: validate_file has returned the reason of the second check while
\* the third and fourth checks, which would fail too, were not called.
C8_Witness ==
    /\ v_pc = 0
    /\ FailingChecks(v_file) = {2, 3, 4}
    /\ v_ran = SubSeq(FixedOrder, 1, 2)
    /\ v_result = _check_malware_patterns(v_file)

\* the magic number of each declared format (PDF, DOCX/ZIP container, JPEG, PNG)
RequiredMagic ==
    [e \in {".pdf", ".docx", ".jpg", ".jpeg", ".png"} |->
        CASE e = ".pdf" -> SIG_PDF
          [] e = ".docx" -> SIG_ZIP
          [] e \in {".jpg", ".jpeg"} -> SIG_JPG
          [] e = ".png" -> SIG_PNG]

HeaderMatchesExt(f) ==
    StartsWith(FileRead(f, Len(RequiredMagic[f.ext])), RequiredMagic[f.ext])

\* C9: a file whose leading bytes do not match the magic number required by its
\* own declared extension is judged invalid by validate_file.
C9_HeaderMismatchInvalid ==
    (v_pc = 0 /\ v_file.ext \in DOMAIN RequiredMagic /\ ~HeaderMatchesExt(v_file))
        => ~v_result.valid

\* C10: when the magic-number confirmation is reached for a .pdf, .docx, .jpg or
\* .png file that starts with the header of its own format, the confirmation
\* passes (and validate_file returns valid).
C10_OwnHeaderPassesMagic ==
    ( /\ v_pc = 0
      /\ v_ran = FixedOrder
      /\ v_file.ext \in {".pdf", ".docx", ".jpg", ".png"}
      /\ HeaderMatchesExt(v_file) )
        => (_check_magic_numbers(v_file).valid /\ v_result.valid)

(***************************************************************************)
(* DocumentProcessor._clean_text (core/document_processor.py)              *)
(***************************************************************************)
IsControl(c) == c \in (0..31) \cup (127..159)

\* re.sub(r'[\x00-\x1F\x7F-\x9F]', '', text)
RemoveControl(s) == SelectSeq(s, LAMBDA c : ~IsControl(c))

\* re.sub(r'\s+', ' ', text): of every maximal run of whitespace the last
\* character stays, as a space
CollapseSpace(s) ==
    LET marked == [i \in 1..Len(s) |->
                    [c |-> IF IsSpace(s[i]) THEN 32 ELSE s[i],
                     keep |-> ~IsSpace(s[i]) \/ i = Len(s) \/ ~IsSpace(s[i + 1])]]
        kept == SelectSeq(marked, LAMBDA m : m.keep)
    IN  [i \in 1..Len(kept) |-> kept[i].c]

\* str.strip()
Strip(s) ==
    LET inked == {i \in 1..Len(s) : ~IsSpace(s[i])} IN
    IF inked = {} THEN <<>>
    ELSE SubSeq(s, CHOOSE i \in inked : \A j \in inked : i <= j,
                   CHOOSE i \in inked : \A j \in inked : i >= j)

\* RemoveArtifacts with the pattern r'[\-_]+': every run of dashes and
\* underscores is removed, wherever it lies
RemoveArtifacts_anywhere(s) == SelectSeq(s, LAMBDA c : c \notin {45, 95})

\* re.sub(r'(?m)^\s*[\-_]+\s*$', '', text) on a text that holds no '\n' (the
\* first substitution removed them all): ^ matches only at the start and $
\* only at the end, so the one possible match is the whole text.
RemoveArtifacts(s) ==
    IF \E a \in 1..Len(s) : \E b \in a..Len(s) :
          /\ AllSpace(s, 1, a)
          /\ \A k \in a..b : s[k] \in {45, 95}
          /\ AllSpace(s, b + 1, Len(s) + 1)
    THEN <<>>
    ELSE s

_clean_text(text) == RemoveArtifacts(Strip(CollapseSpace(RemoveControl(text))))

(***************************************************************************)
(* Settings and limits used by the batch pipeline.  MAX_PAGES and          *)
(* PARALLEL_WORKERS are read from the environment (defaults 800 and 4);    *)
(* the model runs with MAX_PAGES=2 and PARALLEL_WORKERS=2.                 *)
(***************************************************************************)
MIN_TEXT_LENGTH == 50
MAX_PAGES == 2
PARALLEL_WORKERS == 2

\* The buffer of the file object tempfile.NamedTemporaryFile() returns: the
\* st_blksize of the temporary file (4096 on the usual Linux filesystems;
\* io.DEFAULT_BUFFER_SIZE where it is unknown).  tmp.write(data) keeps data of
\* at most this many bytes in the buffer and writes longer data through to
\* the file.
BUFFER_SIZE == 4096

(***************************************************************************)
(* Outcomes of a call: a returned text or a raised exception               *)
(***************************************************************************)
Returned(t) == [ok |-> TRUE, text |-> t, err |-> ""]
Raised(e) == [ok |-> FALSE, text |-> <<>>, err |-> e]

(***************************************************************************)
(* Source files of a batch.  Besides ext, bytes and size a file has        *)
(*   opens  : fitz.Document(path) opens the complete file                  *)
(*   pages  : for a PDF, per page what page.get_text() and what            *)
(*            pytesseract.image_to_string() of its pixmap give             *)
(*   lib    : for DOCX, images, CSV and XLSX, what the format library      *)
(*            gives on the complete file                                   *)
(*   readable : open(file_path, 'rb') succeeds                             *)
(*   meta_ok  : _generate_metadata on the copy raises nothing              *)
(***************************************************************************)
\* FileLimitHandler.check_page_count
check_page_count(page_count) ==
    IF page_count > MAX_PAGES
    THEN Fail(<<"Document exceeds page limit", "MAX_PAGES">>)
    ELSE Ok

\* FileLimitHandler.check_file_size
check_file_size(f) ==
    IF f.size > MAX_FILE_SIZE
    THEN Fail(<<"File exceeds MB limit", "MAX_FILE_SIZE">>)
    ELSE Ok

\* DocumentProcessor._get_pdf_page_count
_get_pdf_page_count(f) == IF f.opens THEN Len(f.pages) ELSE 0

\* the keys of self.processors
processors == {".pdf", ".docx", ".txt", ".png", ".jpg", ".jpeg", ".csv", ".xlsx"}

\* text += page.get_text() + "\n\n" over the pages
RECURSIVE NativeText(_)
NativeText(pages) ==
    IF pages = <<>> THEN <<>>
    ELSE Head(pages).native.text \o <<10, 10>> \o NativeText(Tail(pages))

\* "[OCR Page " and "]\n"
OCR_MARK == <<91, 79, 67, 82, 32, 80, 97, 103, 101, 32>>

\* full_text += f"[OCR Page {page.number}]\n{text}\n\n" from page n on
\* (page numbers start at 0 and stay below 10 here)
RECURSIVE OcrText(_, _)
OcrText(pages, n) ==
    IF n > Len(pages) THEN <<>>
    ELSE OCR_MARK \o <<48 + (n - 1), 93, 10>> \o pages[n].ocr.text \o <<10, 10>>
         \o OcrText(pages, n + 1)

\* DocumentProcessor._run_ocr on a copy that is complete or empty
_run_ocr(f, complete) ==
    IF ~complete \/ ~f.opens THEN Raised("cannot open document")
    ELSE IF \E n \in 1..Len(f.pages) : ~f.pages[n].ocr.ok THEN Raised("OCR failed")
    ELSE Returned(OcrText(f.pages, 1))

\* DocumentProcessor._process_pdf.  When OCR raises inside the try block the
\* handler runs OCR once more, which raises again.
_process_pdf(f, complete) ==
    LET nativeOk == complete /\ f.opens /\ \A n \in 1..Len(f.pages) : f.pages[n].native.ok
        text == NativeText(f.pages)
    IN  IF nativeOk /\ Len(Strip(text)) >= MIN_TEXT_LENGTH
        THEN Returned(_clean_text(text))
        ELSE LET o == _run_ocr(f, complete) IN
             IF o.ok THEN Returned(_clean_text(o.text)) ELSE o

\* DocumentProcessor._process_text: read with errors='replace'
_process_text(f, complete) ==
    Returned(_clean_text(IF complete THEN Utf8Decode(ScanBytes(f), 1, TRUE) ELSE <<>>))

\* _process_docx, _process_image, _process_csv, _process_excel: the format
\* library raises on an empty file, and otherwise gives f.lib
_process_lib(f, complete) ==
    IF ~complete THEN Raised("cannot read empty file")
    ELSE IF ~f.lib.ok THEN f.lib
    ELSE Returned(_clean_text(f.lib.text))

\* processor(tmp_path), processor = self.processors.get(ext)
processor(f, complete) ==
    CASE f.ext = ".pdf" -> _process_pdf(f, complete)
      [] f.ext = ".txt" -> _process_text(f, complete)
      [] OTHER -> _process_lib(f, complete)

\* A metadata dict: format, size, and where the code sets them pages and
\* author (-1 and "" stand for an absent key; the timestamps are left out).
NoMetadata == [format |-> "", size |-> -1, pages |-> -1, author |-> ""]

\* ext[1:]
FormatOf(ext) ==
    CASE ext = ".pdf" -> "pdf" [] ext = ".docx" -> "docx" [] ext = ".txt" -> "txt"
      [] ext = ".png" -> "png" [] ext = ".jpg" -> "jpg" [] ext = ".jpeg" -> "jpeg"
      [] ext = ".csv" -> "csv" [] ext = ".xlsx" -> "xlsx"

\* DocumentProcessor._generate_metadata(tmp_path, ext)
_generate_metadata(f, complete) ==
    [format |-> FormatOf(f.ext),
     size |-> IF complete THEN f.size ELSE 0,
     pages |-> IF f.ext = ".pdf" THEN Len(f.pages) ELSE -1,
     author |-> IF f.ext \in {".docx", ".xlsx"} THEN "N/A" ELSE ""]

(***************************************************************************)
(* The files a batch is drawn from, by path                                *)
(***************************************************************************)
MaxBatch == 3

\* "ab"
T_ab == <<97, 98>>
\* "eval("
T_eval == W_eval \o <<40>>
\* sixty times "a"
T_long == [i \in 1..60 |-> 97]

NoLib == Returned(<<>>)

PlainFile(e, b, n) ==
    [ext |-> e, bytes |-> b, size |-> n, opens |-> TRUE,
     pages |-> <<>>, lib |-> NoLib, readable |-> TRUE, meta_ok |-> TRUE]

\* every path of a batch names an existing file
DPPaths ==
    {"m.txt", "s.txt", "blank.txt", "huge.txt", "d.docx", "x.exe", "i.jpeg", "p.pdf"}

\* the paths of a batch of scans and of files that fail in their worker
ScanPaths == {"scan.pdf", "good.pdf", "t.png", "locked.txt", "meta.pdf", "i.jpeg"}

\* an image-only page: no native text, and what OCR gives for it
ScanPage(ocr) == [native |-> Returned(<<>>), ocr |-> ocr]

FileOf(p) ==
    CASE p = "m.txt" -> PlainFile(".txt", T_eval, 200000)
      [] p = "s.txt" -> PlainFile(".txt", T_ab, 2)
      [] p = "blank.txt" -> PlainFile(".txt", <<>>, 200000)
      [] p = "huge.txt" -> PlainFile(".txt", T_ab, MAX_FILE_SIZE + 1)
      [] p = "d.docx" ->
            [PlainFile(".docx", OOXML_WORD, 200000)
                EXCEPT !.lib = Raised("docx2txt failed")]
      [] p = "x.exe" -> PlainFile(".exe", T_ab, 200000)
      [] p = "i.jpeg" ->
            [PlainFile(".jpeg", SIG_JPG \o T_ab, 200000) EXCEPT !.lib = Returned(T_ab)]
      [] p = "p.pdf" ->
            [PlainFile(".pdf", SIG_PDF, 200000)
                EXCEPT !.pages = << [native |-> Returned(T_long), ocr |-> Returned(T_ab)],
                                    [native |-> Returned(T_ab), ocr |-> Returned(T_ab)],
                                    [native |-> Returned(<<>>), ocr |-> Returned(<<>>)] >>]
      [] p = "scan.pdf" ->
            [PlainFile(".pdf", SIG_PDF, 200000)
                EXCEPT !.pages = << ScanPage(Returned(T_ab)), ScanPage(Raised("OCR failed")) >>]
      [] p = "good.pdf" ->
            [PlainFile(".pdf", SIG_PDF, 200000)
                EXCEPT !.pages = << ScanPage(Returned(T_ab)), ScanPage(Returned(T_ab)) >>]
      [] p = "t.png" ->
            [PlainFile(".png", PNG_IHDR, 200000)
                EXCEPT !.lib = Raised("Tesseract OCR not installed")]
      [] p = "locked.txt" ->
            [PlainFile(".txt", T_ab, 200000) EXCEPT !.readable = FALSE]
      [] p = "meta.pdf" ->
            [PlainFile(".pdf", SIG_PDF, 200000)
                EXCEPT !.pages = << [native |-> Returned(T_long), ocr |-> Returned(T_ab)] >>,
                       !.meta_ok = FALSE]

\* the file each path names (a table of FileOf)
FileTable == [p \in DPPaths \cup ScanPaths |-> FileOf(p)]
FileAt(p) == FileTable[p]

\* all sequences over S of length at most n
SeqsUpTo(S, n) == UNION {[1..k -> S] : k \in 0..n}

(***************************************************************************)
(* DocumentProcessor._process_single, in the two steps of a worker: up to  *)
(* the creation of the temporary file, and the rest                        *)
(***************************************************************************)
\* tmp.write(src.read()) has reached the file when processor(tmp_path) opens it
Flushed(f) == f.size > BUFFER_SIZE

\* lines 67-78: the warnings of the page-count and file-size checks
LimitWarnings(f) ==
    LET pw == IF f.ext = ".pdf" THEN check_page_count(_get_pdf_page_count(f)) ELSE Ok
        sw == check_file_size(f)
    IN  (IF pw.valid THEN <<>> ELSE <<pw.message>>)
        \o (IF sw.valid THEN <<>> ELSE <<sw.message>>)

\* what a future holds: a returned (content, metadata, warnings) or an exception
NoOutcome ==
    [ok |-> FALSE, content |-> <<>>, metadata |-> NoMetadata, warnings |-> <<>>,
     err |-> "pending"]
Result(c, m, w) == [ok |-> TRUE, content |-> c, metadata |-> m, warnings |-> w, err |-> ""]
Exception(e) == [NoOutcome EXCEPT !.err = e]

\* lines 67-83: the exception raised before the temporary file is created, or ""
EarlyError(f) ==
    IF f.ext \notin processors THEN "Unsupported file type" ELSE ""

\* lines 85-100, given the file and the warnings collected so far
ProcessCopy(f, warnings) ==
    LET content == processor(f, Flushed(f)) IN
    IF ~f.readable THEN Exception("Permission denied")
    ELSE IF ~content.ok THEN Exception(content.err)
    ELSE IF ~f.meta_ok THEN Exception("metadata failed")
    ELSE Result(content.text, _generate_metadata(f, Flushed(f)), warnings)

\* _process_single as a function of the file
_process_single(f) ==
    IF EarlyError(f) # "" THEN Exception(EarlyError(f))
    ELSE ProcessCopy(f, LimitWarnings(f))

\* lines 85-100 for the file of each path that has an extractor, as pairs of
\* path and outcome
CopyPairs ==
    {<<p, ProcessCopy(FileAt(p), LimitWarnings(FileAt(p)))>> :
        p \in {q \in DPPaths \cup ScanPaths : FileAt(q).ext \in processors}}

\* lines 85-100 for the file of each path (a table of ProcessCopy)
CopyTable ==
    [p \in DPPaths \cup ScanPaths |-> (CHOOSE pr \in CopyPairs : pr[1] = p)[2]]

\* _process_single for the file of each path, as pairs of path and outcome
SinglePairs == {<<p, _process_single(FileAt(p))>> : p \in DPPaths \cup ScanPaths}

\* _process_single for the file of each path (a table of _process_single)
SingleTable ==
    [p \in DPPaths \cup ScanPaths |-> (CHOOSE pr \in SinglePairs : pr[1] = p)[2]]

Running(fut) == {i \in 1..Len(fut) : fut[i].state = "running"}

\* CanStart for a pool that starts a thread for every submitted task
CanStart_unbounded(fut, i) ==
    /\ i \in 1..Len(fut)
    /\ fut[i].state = "queued"
    /\ \A j \in 1..(i - 1) : fut[j].state # "queued"

\* a pool thread takes the next queued task
CanStart(fut, i) ==
    /\ i \in 1..Len(fut)
    /\ fut[i].state = "queued"
    /\ \A j \in 1..(i - 1) : fut[j].state # "queued"
    /\ Cardinality(Running(fut)) < PARALLEL_WORKERS

\* results[key] = value
Put(results, key, value) ==
    [k \in DOMAIN results \cup {key} |-> IF k = key THEN value ELSE results[k]]

\* the entry process_batch stores for a finished future
EntryOf(outcome) ==
    IF outcome.ok
    THEN [content |-> outcome.content, metadata |-> outcome.metadata,
          warnings |-> outcome.warnings]
    ELSE [content |-> <<>>, metadata |-> NoMetadata,
          warnings |-> << <<"Processing failed", outcome.err>> >>]

PPIdle ==
    /\ pp_tasks = <<>> /\ pp_rlimit = TRUE /\ pp_fut = <<>> /\ pp_yielded = {}
    /\ pp_results = <<>> /\ pp_pc = "idle" /\ rlimit_as = "RLIM_INFINITY"

ValIdle ==
    /\ v_file = PlainFile(".txt", <<>>, 0) /\ v_pc = 0 /\ v_ran = <<>> /\ v_result = NoResult

\* DocumentProcessor.process_batch(file_paths), all tasks submitted
DPInit ==
    /\ dp_files \in SeqsUpTo(DPPaths, MaxBatch)
    /\ dp_fut = [i \in 1..Len(dp_files) |-> [state |-> "queued", outcome |-> NoOutcome]]
    /\ dp_tmp = {}
    /\ dp_results = <<>>
    /\ dp_i = 1
    /\ dp_pc = "collect"
    /\ deadline = FALSE
    /\ PPIdle
    /\ ValIdle
    /\ FunIdle

\* a worker starts _process_single(fp): lines 67-85
DPStart(i) ==
    /\ dp_pc = "collect"
    /\ CanStart(dp_fut, i)
    /\ LET f == FileAt(dp_files[i]) IN
       IF EarlyError(f) # ""
       THEN /\ dp_fut' = [dp_fut EXCEPT ![i] =
                            [state |-> "done", outcome |-> Exception(EarlyError(f))]]
            /\ dp_tmp' = dp_tmp
       ELSE /\ dp_fut' = [dp_fut EXCEPT ![i].state = "running"]
            /\ dp_tmp' = dp_tmp \cup {i}
    /\ UNCHANGED <<dp_files, dp_results, dp_i, dp_pc, deadline, valVars, ppVars, funVars>>

\* DPFinish with the unlink after the return statement instead of in the
\* finally clause: an exception leaves the temporary copy on disk
DPFinish_unlink_on_return(i) ==
    /\ i \in 1..Len(dp_fut)
    /\ dp_fut[i].state = "running"
    /\ dp_fut' = [dp_fut EXCEPT ![i] =
                    [state |-> "done", outcome |-> CopyTable[dp_files[i]]]]
    /\ dp_tmp' = IF CopyTable[dp_files[i]].ok THEN dp_tmp \ {i} ELSE dp_tmp
    /\ UNCHANGED <<dp_files, dp_results, dp_i, dp_pc, deadline, valVars, ppVars, funVars>>

\* the worker copies, extracts, builds the metadata and unlinks: lines 86-100
DPFinish(i) ==
    /\ i \in 1..Len(dp_fut)
    /\ dp_fut[i].state = "running"
    /\ dp_fut' = [dp_fut EXCEPT ![i] =
                    [state |-> "done", outcome |-> CopyTable[dp_files[i]]]]
    /\ dp_tmp' = dp_tmp \ {i}
    /\ UNCHANGED <<dp_files, dp_results, dp_i, dp_pc, deadline, valVars, ppVars, funVars>>

\* DPCollect with a failed future leaving no entry in results
DPCollect_skip_failed ==
    /\ dp_pc = "collect"
    /\ dp_i \in 1..Len(dp_fut)
    /\ dp_fut[dp_i].state = "done"
    /\ dp_results' = IF dp_fut[dp_i].outcome.ok
                      THEN Put(dp_results, dp_files[dp_i], EntryOf(dp_fut[dp_i].outcome))
                      ELSE dp_results
    /\ dp_i' = dp_i + 1
    /\ UNCHANGED <<dp_files, dp_fut, dp_tmp, dp_pc, deadline, valVars, ppVars, funVars>>

\* one iteration of `for future in future_to_file`: future.result() and the
\* assignment to results[file_path], in either branch of the try
DPCollect ==
    /\ dp_pc = "collect"
    /\ dp_i \in 1..Len(dp_fut)
    /\ dp_fut[dp_i].state = "done"
    /\ dp_results' = Put(dp_results, dp_files[dp_i], EntryOf(dp_fut[dp_i].outcome))
    /\ dp_i' = dp_i + 1
    /\ UNCHANGED <<dp_files, dp_fut, dp_tmp, dp_pc, deadline, valVars, ppVars, funVars>>

\* the loop is over: the executor is shut down and results returned
DPReturn ==
    /\ dp_pc = "collect"
    /\ dp_i > Len(dp_fut)
    /\ dp_pc' = "returned"
    /\ UNCHANGED <<dp_files, dp_fut, dp_tmp, dp_results, dp_i, deadline, valVars, ppVars, funVars>>

\* the timeout given to ParallelProcessor.process_batch elapses (DocumentProcessor's
\* process_batch takes none)
Tick ==
    /\ ~deadline
    /\ pp_pc \in {"collect", "shutdown"}
    /\ deadline' = TRUE
    /\ UNCHANGED <<valVars, dpVars, ppVars, funVars>>

(***************************************************************************)
(* ParallelProcessor (core/parallel_processing.py)                         *)
(***************************************************************************)
MaxTasks == 3

\* A task dict and what process_func does with it: `id` is task.get('id')
\* ("None" when the dict has no 'id' key), `value` what process_func(task)
\* returns, `raises` whether it raises instead.
PPTasks ==
    { [id |-> "a", value |-> "r1", raises |-> FALSE],
      [id |-> "a", value |-> "r2", raises |-> TRUE],
      [id |-> "b", value |-> "r3", raises |-> FALSE],
      [id |-> "None", value |-> "r4", raises |-> FALSE] }

\* utilities.error_handler.log_error: records the message and returns
log_error(message) == TRUE

\* _safe_execute(process_func, task): setrlimit, then func(task)
_safe_execute(task, rlimit_ok) ==
    IF ~rlimit_ok THEN [ok |-> FALSE, value |-> "ValueError"]
    ELSE IF task.raises THEN [ok |-> FALSE, value |-> "task raised"]
    ELSE [ok |-> TRUE, value |-> task.value]

PPPending == [ok |-> FALSE, value |-> "pending"]

\* ParallelProcessor.process_batch(tasks, process_func, timeout), all tasks
\* submitted
PPInit ==
    /\ pp_tasks \in SeqsUpTo(PPTasks, MaxTasks)
    /\ pp_rlimit \in BOOLEAN
    /\ pp_fut = [i \in 1..Len(pp_tasks) |-> [state |-> "queued", outcome |-> PPPending]]
    /\ pp_yielded = {}
    /\ pp_results = <<>>
    /\ pp_pc = "collect"
    /\ rlimit_as = "RLIM_INFINITY"
    /\ deadline = FALSE
    /\ dp_files = <<>> /\ dp_fut = <<>> /\ dp_tmp = {} /\ dp_results = <<>>
    /\ dp_i = 1 /\ dp_pc = "idle"
    /\ ValIdle
    /\ FunIdle

\* a pool thread takes the next queued task and enters _safe_execute, which
\* first sets the soft RLIMIT_AS of the process (lines 55-58); the pool serves
\* its queue until shutdown(wait=True) has seen every task finish
PPStart(i) ==
    /\ pp_pc \in {"collect", "shutdown"}
    /\ CanStart(pp_fut, i)
    /\ pp_fut' = [pp_fut EXCEPT ![i].state = "running"]
    /\ rlimit_as' = IF pp_rlimit THEN "MAX_MEMORY" ELSE rlimit_as
    /\ UNCHANGED <<pp_tasks, pp_rlimit, pp_yielded, pp_results, pp_pc, deadline,
                   valVars, dpVars, funVars>>

\* the worker's _safe_execute returns or raises
PPFinish(i) ==
    /\ i \in 1..Len(pp_fut)
    /\ pp_fut[i].state = "running"
    /\ pp_fut' = [pp_fut EXCEPT ![i] =
                    [state |-> "done", outcome |-> _safe_execute(pp_tasks[i], pp_rlimit)]]
    /\ UNCHANGED <<rlimit_as, pp_tasks, pp_rlimit, pp_yielded, pp_results, pp_pc, deadline,
                   valVars, dpVars, funVars>>

\* PPCollect without the except clause: the exception of future.result() leaves
\* the loop and enters the executor's __exit__
PPCollect_uncaught(i) ==
    /\ pp_pc = "collect"
    /\ i \in 1..Len(pp_fut)
    /\ i \notin pp_yielded
    /\ pp_fut[i].state = "done"
    /\ LET o == pp_fut[i].outcome IN
       IF o.ok
       THEN /\ pp_results' = Put(pp_results, pp_tasks[i].id, o.value)
            /\ pp_pc' = pp_pc
       ELSE /\ pp_results' = pp_results
            /\ pp_pc' = "shutdown"
    /\ pp_yielded' = pp_yielded \cup {i}
    /\ UNCHANGED <<rlimit_as, pp_tasks, pp_rlimit, pp_fut, deadline, valVars, dpVars, funVars>>

\* as_completed yields a finished future; the loop body stores its result, or
\* None and a log line when future.result() raises
PPCollect(i) ==
    /\ pp_pc = "collect"
    /\ i \in 1..Len(pp_fut)
    /\ i \notin pp_yielded
    /\ pp_fut[i].state = "done"
    /\ LET o == pp_fut[i].outcome IN
       IF o.ok
       THEN pp_results' = Put(pp_results, pp_tasks[i].id, o.value)
       ELSE /\ pp_results' = Put(pp_results, pp_tasks[i].id, "None")
            /\ log_error(<<"Parallel task failed", o.value>>)
    /\ pp_yielded' = pp_yielded \cup {i}
    /\ UNCHANGED <<rlimit_as, pp_tasks, pp_rlimit, pp_fut, pp_pc, deadline, valVars, dpVars, funVars>>

\* as_completed finds the timeout elapsed with futures it has not yielded and
\* raises TimeoutError; the exception leaves the loop and enters the
\* executor's __exit__, which is shutdown(wait=True)
PPTimeout ==
    /\ pp_pc = "collect"
    /\ deadline
    /\ pp_yielded # 1..Len(pp_fut)
    /\ pp_pc' = "shutdown"
    /\ UNCHANGED <<rlimit_as, pp_tasks, pp_rlimit, pp_fut, pp_yielded, pp_results, deadline,
                   valVars, dpVars, funVars>>

\* every future was yielded: the executor is shut down and results returned
PPReturn ==
    /\ pp_pc = "collect"
    /\ pp_yielded = 1..Len(pp_fut)
    /\ pp_pc' = "returned"
    /\ UNCHANGED <<rlimit_as, pp_tasks, pp_rlimit, pp_fut, pp_yielded, pp_results, deadline,
                   valVars, dpVars, funVars>>

\* shutdown(wait=True) returns once every submitted task has run to its end;
\* the TimeoutError then leaves process_batch
PPRaise ==
    /\ pp_pc = "shutdown"
    /\ \A i \in 1..Len(pp_fut) : pp_fut[i].state = "done"
    /\ pp_pc' = "raised"
    /\ UNCHANGED <<rlimit_as, pp_tasks, pp_rlimit, pp_fut, pp_yielded, pp_results, deadline,
                   valVars, dpVars, funVars>>

(***************************************************************************)
(* A batch call of either orchestrator                                     *)
(***************************************************************************)
BatchInit == DPInit \/ PPInit

BatchNext ==
    \/ \E i \in 1..MaxBatch + 1 : DPStart(i)
    \/ \E i \in 1..MaxBatch + 1 : DPFinish(i)
    \/ DPCollect
    \/ DPReturn
    \/ \E i \in 1..MaxTasks + 1 : PPStart(i)
    \/ \E i \in 1..MaxTasks + 1 : PPFinish(i)
    \/ \E i \in 1..MaxTasks + 1 : PPCollect(i)
    \/ PPTimeout
    \/ PPReturn
    \/ PPRaise
    \/ Tick

SpecBatch == BatchInit /\ [][BatchNext]_vars

(***************************************************************************)
(* DocumentProcessor.process_batch on scans and on files that fail in      *)
(* their worker                                                            *)
(***************************************************************************)
ScanInit ==
    /\ dp_files \in SeqsUpTo(ScanPaths, MaxBatch)
    /\ dp_fut = [i \in 1..Len(dp_files) |-> [state |-> "queued", outcome |-> NoOutcome]]
    /\ dp_tmp = {}
    /\ dp_results = <<>>
    /\ dp_i = 1
    /\ dp_pc = "collect"
    /\ deadline = FALSE
    /\ PPIdle
    /\ ValIdle
    /\ FunIdle

DPNext ==
    \/ \E i \in 1..MaxBatch + 1 : DPStart(i)
    \/ \E i \in 1..MaxBatch + 1 : DPFinish(i)
    \/ DPCollect
    \/ DPReturn

SpecScan == ScanInit /\ [][DPNext]_vars

(***************************************************************************)
(* Properties of the batch orchestrators (SpecBatch)                       *)
(***************************************************************************)
SubmittedPaths == {dp_files[i] : i \in 1..Len(dp_files)}

\* C1 (as stated): the map DocumentProcessor.process_batch returns has the
\* submitted paths as its key set and as many entries as file_paths has items.
C1_OneEntryPerListItem ==
    dp_pc = "returned" =>
        /\ DOMAIN dp_results = SubmittedPaths
        /\ Cardinality(DOMAIN dp_results) = Len(dp_files)

\* C1 (amended): the key set of the returned map is exactly the set of
\* submitted paths, whatever the files' outcomes; it has one entry per distinct
\* path, hence len(file_paths) entries when no path is submitted twice.
C1_OneEntryPerDistinctPath ==
    dp_pc = "returned" =>
        /\ DOMAIN dp_results = SubmittedPaths
        /\ Cardinality(DOMAIN dp_results) = Cardinality(SubmittedPaths)
        /\ (\A i, j \in 1..Len(dp_files) : dp_files[i] = dp_files[j] => i = j)
              => Cardinality(DOMAIN dp_results) = Len(dp_files)

\* C1 witness: a returned batch of three distinct files of which one succeeded,
\* one failed in its extractor and one had no extractor.
C1_Witness ==
    /\ dp_pc = "returned"
    /\ dp_files = <<"i.jpeg", "d.docx", "x.exe">>
    /\ Cardinality(DOMAIN dp_results) = 3
    /\ dp_fut[1].outcome.ok /\ ~dp_fut[2].outcome.ok /\ ~dp_fut[3].outcome.ok

\* what process_func and the memory limit make of task i: its result, or None
PPExpected(i) ==
    IF pp_rlimit /\ ~pp_tasks[i].raises THEN pp_tasks[i].value ELSE "None"

\* C2: failure isolation.  A worker's exception is recorded in the entry of its
\* own task only (DocumentProcessor: empty content and a "Processing failed"
\* warning; ParallelProcessor: None); every entry is what its own task alone
\* determines; and the call does not raise because a worker raised.
C2_FailureIsolation ==
    /\ \A p \in DOMAIN dp_results :
         LET own == SingleTable[p] IN
         IF own.ok
         THEN dp_results[p] =
                [content |-> own.content, metadata |-> own.metadata,
                 warnings |-> own.warnings]
         ELSE /\ dp_results[p].content = <<>>
              /\ dp_results[p].warnings = << <<"Processing failed", own.err>> >>
    /\ dp_pc = "returned" => DOMAIN dp_results = SubmittedPaths
    /\ \A k \in DOMAIN pp_results :
         \E i \in pp_yielded : pp_tasks[i].id = k /\ pp_results[k] = PPExpected(i)
    /\ \A i \in pp_yielded : pp_tasks[i].id \in DOMAIN pp_results
    /\ pp_pc = "returned" => pp_yielded = 1..Len(pp_tasks)
    /\ pp_pc \in {"shutdown", "raised"} => deadline

\* C2 witness: a returned batch in which d.docx failed in its extractor and the
\* other file has its own content.
C2_Witness ==
    /\ dp_pc = "returned"
    /\ dp_files = <<"d.docx", "i.jpeg">>
    /\ dp_results["d.docx"].content = <<>>
    /\ dp_results["d.docx"].warnings = << <<"Processing failed", "docx2txt failed">> >>
    /\ dp_results["i.jpeg"].content = T_ab
    /\ dp_results["i.jpeg"].warnings = <<>>

\* as_completed has raised TimeoutError
TimeoutStruck == pp_pc \in {"shutdown", "raised"}

\* C3: when the timeout elapses with tasks unfinished, process_batch returns a
\* map that holds the result of every completed task and a failed entry for
\* every unfinished one.
C3_TimeoutReturnsPartialResults ==
    (TimeoutStruck /\ pp_pc \in {"returned", "raised"}) =>
        /\ pp_pc = "returned"
        /\ \A i \in 1..Len(pp_tasks) : pp_tasks[i].id \in DOMAIN pp_results

\* C4: once the deadline has passed, the batch call does not wait for workers
\* that are still running or queued.
C4_NoWaitAfterDeadline ==
    ~( /\ deadline
       /\ pp_pc = "shutdown"
       /\ \E i \in 1..Len(pp_fut) : pp_fut[i].state # "done" )

\* the verdict of validate_file on the file of each path
VerdictTable == [p \in DPPaths |-> validate_file(FileAt(p))]

\* C5: a file the Security Validator judges invalid is never passed to an
\* extractor (no worker reaches processor(tmp_path) for it), and its entry has
\* empty content and a warning carrying the verdict's reason.
C5_InvalidFileNotExtracted ==
    /\ \A i \in 1..Len(dp_fut) :
         dp_fut[i].state = "running" => VerdictTable[dp_files[i]].valid
    /\ \A p \in DOMAIN dp_results :
         (FileAt(p).ext \in processors /\ ~VerdictTable[p].valid) =>
            /\ dp_results[p].content = <<>>
            /\ \E n \in 1..Len(dp_results[p].warnings) :
                 dp_results[p].warnings[n] = VerdictTable[p].message

\* C6: a file larger than MAX_FILE_SIZE yields an entry with empty content and a
\* size-limit warning.
C6_OversizeFileNotExtracted ==
    \A p \in DOMAIN dp_results :
        FileAt(p).size > MAX_FILE_SIZE =>
            /\ dp_results[p].content = <<>>
            /\ \E n \in 1..Len(dp_results[p].warnings) :
                 dp_results[p].warnings[n] = check_file_size(FileAt(p)).message

\* C7: in every entry of a returned map, empty content comes with a warning.
C7_EmptyContentHasWarning ==
    dp_pc = "returned" =>
        \A p \in DOMAIN dp_results :
            dp_results[p].content = <<>> => dp_results[p].warnings # <<>>


(***************************************************************************)
(* Properties of the single checks of validate_file (SpecVal)              *)
(***************************************************************************)
\* the content type of each declared format with a signature: PDF, DOCX, JPEG
\* (.jpg or .jpeg) and PNG
FormatMime ==
    [e \in {".pdf", ".docx", ".jpg", ".jpeg", ".png"} |->
        CASE e = ".pdf" -> "application/pdf"
          [] e = ".docx" -> "application/vnd.openxmlformats-officedocument.wordprocessingml.document"
          [] e \in {".jpg", ".jpeg"} -> "image/jpeg"
          [] e = ".png" -> "image/png"]

\* the first check has been called and has failed
ExtensionCheckFailed == v_pc = 0 /\ Len(v_ran) = 1

\* C11: once the extension/content-type check has run, it has failed with a
\* mismatch reason for every .pdf, .docx, .jpg, .jpeg or .png file whose
\* detected content type is not that of its format, and it has passed for
\* every file of another extension.
C11_ExtensionMismatchFails ==
    Len(v_ran) >= 1 =>
        IF v_file.ext \in DOMAIN FormatMime
        THEN magic_from_file(v_file) # FormatMime[v_file.ext] =>
                /\ ExtensionCheckFailed
                /\ v_result.message[1] = "Extension-MIME mismatch"
        ELSE ~ExtensionCheckFailed

\* the raw bytes of the file hold a NUL, 0xFF or 0xFE byte
HasBinaryByte(f) == \E i \in 1..Len(ScanBytes(f)) : ScanBytes(f)[i] \in {0, 254, 255}

\* the second check has been called and has failed
PatternScanFailed == v_pc = 0 /\ Len(v_ran) = 2

\* C12: once the malicious-pattern scan has run on a file whose raw bytes hold
\* a NUL, 0xFF or 0xFE byte, it has failed, and the reason is the fixed text
\* followed by one of the signatures.
C12_BinaryBytesFailScan ==
    (Len(v_ran) >= 2 /\ HasBinaryByte(v_file)) =>
        /\ PatternScanFailed
        /\ v_result.message[1] = "Malware pattern detected"
        /\ \E n \in 1..Len(MALWARE_SIGNATURES) : v_result.message[2] = MALWARE_SIGNATURES[n]


(***************************************************************************)
(* DocumentProcessor._clean_text, one substitution per step, called a      *)
(* second time on what it returned                                         *)
(***************************************************************************)
MaxText == 4

\* 'a', 'b', space, '\n', '\t', '-', '_', the control character U+0001
TextChars == {97, 98, 32, 10, 9, 45, 95, 1}

Texts == SeqsUpTo(TextChars, MaxText)

\* no batch call is in progress
DPIdle ==
    /\ dp_files = <<>> /\ dp_fut = <<>> /\ dp_tmp = {} /\ dp_results = <<>>
    /\ dp_i = 1 /\ dp_pc = "idle"

\* nothing but _clean_text is running
CleanAlone == ValIdle /\ deadline = FALSE /\ DPIdle /\ PPIdle /\ PdfIdle /\ AppIdle

\* _clean_text(text) is called
CleanInit ==
    /\ ct_in \in Texts
    /\ ct_text = ct_in
    /\ ct_first = <<>>
    /\ ct_pc = 1
    /\ ct_calls = 0
    /\ CleanAlone

\* text = re.sub(r'[\x00-\x1F\x7F-\x9F]', '', text)
CleanControl ==
    /\ ct_pc = 1
    /\ ct_text' = RemoveControl(ct_text)
    /\ ct_pc' = 2
    /\ UNCHANGED <<ct_in, ct_first, ct_calls, valVars, deadline, dpVars, ppVars, pdfVars, appVars>>

\* text = re.sub(r'\s+', ' ', text).strip()
CleanSpace ==
    /\ ct_pc = 2
    /\ ct_text' = Strip(CollapseSpace(ct_text))
    /\ ct_pc' = 3
    /\ UNCHANGED <<ct_in, ct_first, ct_calls, valVars, deadline, dpVars, ppVars, pdfVars, appVars>>

\* text = re.sub(r'(?m)^\s*[\-_]+\s*$', '', text); return text
CleanArtifacts ==
    /\ ct_pc = 3
    /\ ct_text' = RemoveArtifacts(ct_text)
    /\ ct_pc' = 0
    /\ ct_calls' = ct_calls + 1
    /\ UNCHANGED <<ct_in, ct_first, valVars, deadline, dpVars, ppVars, pdfVars, appVars>>

\* _clean_text is called on the text its first call returned
CleanAgain ==
    /\ ct_pc = 0
    /\ ct_calls = 1
    /\ ct_first' = ct_text
    /\ ct_pc' = 1
    /\ UNCHANGED <<ct_in, ct_text, ct_calls, valVars, deadline, dpVars, ppVars, pdfVars, appVars>>

CleanNext == CleanControl \/ CleanSpace \/ CleanArtifacts \/ CleanAgain

SpecClean == CleanInit /\ [][CleanNext]_vars

\* the stepped function returns what the operator _clean_text gives
CleanStepsAgree ==
    (ct_pc = 0 /\ ct_calls = 1) => ct_text = _clean_text(ct_in)


(***************************************************************************)
(* Properties of _clean_text (SpecClean)                                   *)
(***************************************************************************)
\* the first call of _clean_text has returned, the second has not begun
FirstReturned == ct_pc = 0 /\ ct_calls = 1

\* C13: the normalizer is idempotent: called on the text it returned, it
\* returns that text unchanged.
C13_NormalizeIdempotent ==
    (ct_pc = 0 /\ ct_calls = 2) => ct_text = ct_first

\* C13 witness: the second call has returned, on an input holding a control
\* character, a separator and whitespace that the first call changed into a
\* text that is not empty.
C13_Witness ==
    /\ ct_pc = 0 /\ ct_calls = 2
    /\ ct_in = <<1, 45, 10, 97>>
    /\ ct_first = <<45, 97>>
    /\ ct_text = ct_first

\* letters and whitespace (spaces, tabs, newlines) only
IsProse(s) == \A i \in 1..Len(s) : s[i] \in {97, 98, 32, 9, 10}

\* C14: for a text of words and whitespace the normalizer returns the words in
\* order, every maximal run of spaces, tabs and newlines between two words
\* having become exactly one space.
C14_WhitespaceRunsCollapse ==
    (FirstReturned /\ IsProse(ct_in)) => ct_text = Strip(CollapseSpace(ct_in))

\* the lines of a text, split at '\n'
RECURSIVE Lines(_)
Lines(s) ==
    IF \A i \in 1..Len(s) : s[i] # 10 THEN <<s>>
    ELSE LET n == CHOOSE i \in 1..Len(s) : s[i] = 10 /\ \A j \in 1..(i - 1) : s[j] # 10
         IN  <<SubSeq(s, 1, n - 1)>> \o Lines(SubSeq(s, n + 1, Len(s)))

\* a line of dashes and underscores only
IsSeparatorLine(l) == l # <<>> /\ \A i \in 1..Len(l) : l[i] \in {45, 95}

\* lines of letters and spaces, and separator lines
IsRuledProse(s) ==
    \A n \in 1..Len(Lines(s)) :
        \/ IsSeparatorLine(Lines(s)[n])
        \/ \A i \in 1..Len(Lines(s)[n]) : Lines(s)[n][i] \in {97, 98, 32}

Letters(s) == SelectSeq(s, LAMBDA c : c \in {97, 98})

\* C15: for a text whose lines are prose or separators, the normalizer returns
\* a text without the separator lines (no dash or underscore is left) that
\* still holds the letters of the other lines, in order.
C15_SeparatorLinesRemoved ==
    (FirstReturned /\ IsRuledProse(ct_in)) =>
        /\ \A i \in 1..Len(ct_text) : ct_text[i] \notin {45, 95}
        /\ Letters(ct_text) = Letters(ct_in)


(***************************************************************************)
(* DocumentProcessor._process_pdf and _run_ocr, one page per step, on a    *)
(* complete copy of the document                                           *)
(***************************************************************************)
MaxPdfPages == 3

\* twenty-four times "a"
T_24 == [i \in 1..24 |-> 97]

\* what page.get_text() and pytesseract.image_to_string() do on a page
PageKinds ==
    { [native |-> n, ocr |-> o] :
        n \in {Returned(T_long), Returned(T_24), Raised("get_text failed")},
        o \in {Returned(T_ab), Raised("OCR failed")} }

\* the documents: files fitz cannot open, and documents of up to MaxPdfPages pages
PdfDocs ==
    {[opens |-> FALSE, pages |-> <<>>]}
        \cup {[opens |-> TRUE, pages |-> ps] : ps \in SeqsUpTo(PageKinds, MaxPdfPages)}

\* _process_pdf(file_path) is called: text = ""
PdfInit ==
    /\ pdf_doc \in PdfDocs
    /\ pdf_pc = "native"
    /\ pdf_page = 1
    /\ pdf_text = <<>>
    /\ pdf_handler = FALSE
    /\ pdf_ocr = 0
    /\ pdf_out = [ok |-> FALSE, text |-> <<>>, err |-> "pending"]
    /\ ValIdle /\ deadline = FALSE /\ DPIdle /\ PPIdle /\ CleanIdle /\ AppIdle

\* self._run_ocr(file_path) is called, from the try block or from the except
\* clause: full_text = ""
EnterOcr(handler) ==
    /\ pdf_pc' = "ocr"
    /\ pdf_page' = 1
    /\ pdf_text' = <<>>
    /\ pdf_handler' = handler
    /\ pdf_ocr' = pdf_ocr + 1
    /\ pdf_out' = pdf_out

\* an exception leaves _run_ocr: inside the try block the except clause catches
\* it and calls _run_ocr again; inside the except clause it leaves _process_pdf
OcrRaise(e) ==
    IF ~pdf_handler
    THEN EnterOcr(TRUE)
    ELSE /\ pdf_pc' = "raised"
         /\ pdf_out' = Raised(e)
         /\ UNCHANGED <<pdf_page, pdf_text, pdf_handler, pdf_ocr>>

\* line 136: fitz.Document(file_path) raises
PdfOpenFails ==
    /\ pdf_pc = "native"
    /\ ~pdf_doc.opens
    /\ EnterOcr(TRUE)
    /\ UNCHANGED <<pdf_doc, valVars, deadline, dpVars, ppVars, cleanVars, appVars>>

\* lines 137-138: one iteration of `for page in doc`
PdfNativePage ==
    /\ pdf_pc = "native"
    /\ pdf_doc.opens
    /\ pdf_page \in 1..Len(pdf_doc.pages)
    /\ LET native == pdf_doc.pages[pdf_page].native IN
       IF native.ok
       THEN /\ pdf_text' = pdf_text \o native.text \o <<10, 10>>
            /\ pdf_page' = pdf_page + 1
            /\ UNCHANGED <<pdf_pc, pdf_handler, pdf_ocr, pdf_out>>
       ELSE EnterOcr(TRUE)
    /\ UNCHANGED <<pdf_doc, valVars, deadline, dpVars, ppVars, cleanVars, appVars>>

\* lines 141-148: the loop is over; OCR if the text is sparse, else return
PdfThreshold ==
    /\ pdf_pc = "native"
    /\ pdf_doc.opens
    /\ pdf_page > Len(pdf_doc.pages)
    /\ IF Len(Strip(pdf_text)) < MIN_TEXT_LENGTH
       THEN EnterOcr(FALSE)
       ELSE /\ pdf_pc' = "returned"
            /\ pdf_out' = Returned(_clean_text(pdf_text))
            /\ UNCHANGED <<pdf_page, pdf_text, pdf_handler, pdf_ocr>>
    /\ UNCHANGED <<pdf_doc, valVars, deadline, dpVars, ppVars, cleanVars, appVars>>

\* line 184: fitz.Document(file_path) raises in _run_ocr
PdfOcrOpenFails ==
    /\ pdf_pc = "ocr"
    /\ ~pdf_doc.opens
    /\ OcrRaise("cannot open document")
    /\ UNCHANGED <<pdf_doc, valVars, deadline, dpVars, ppVars, cleanVars, appVars>>

\* lines 185-189: one iteration of `for page in doc` of _run_ocr
PdfOcrPage ==
    /\ pdf_pc = "ocr"
    /\ pdf_doc.opens
    /\ pdf_page \in 1..Len(pdf_doc.pages)
    /\ LET ocr == pdf_doc.pages[pdf_page].ocr IN
       IF ocr.ok
       THEN /\ pdf_text' = pdf_text \o OCR_MARK \o <<48 + (pdf_page - 1), 93, 10>>
                             \o ocr.text \o <<10, 10>>
            /\ pdf_page' = pdf_page + 1
            /\ UNCHANGED <<pdf_pc, pdf_handler, pdf_ocr, pdf_out>>
       ELSE OcrRaise("OCR failed")
    /\ UNCHANGED <<pdf_doc, valVars, deadline, dpVars, ppVars, cleanVars, appVars>>

\* lines 190, 142/146, 148: _run_ocr returns full_text, _process_pdf returns
\* self._clean_text(text)
PdfOcrReturn ==
    /\ pdf_pc = "ocr"
    /\ pdf_doc.opens
    /\ pdf_page > Len(pdf_doc.pages)
    /\ pdf_pc' = "returned"
    /\ pdf_out' = Returned(_clean_text(pdf_text))
    /\ UNCHANGED <<pdf_page, pdf_text, pdf_handler, pdf_ocr>>
    /\ UNCHANGED <<pdf_doc, valVars, deadline, dpVars, ppVars, cleanVars, appVars>>

PdfNext ==
    \/ PdfOpenFails
    \/ PdfNativePage
    \/ PdfThreshold
    \/ PdfOcrOpenFails
    \/ PdfOcrPage
    \/ PdfOcrReturn

SpecPdf == PdfInit /\ [][PdfNext]_vars

\* the stepped function returns or raises what the operator _process_pdf gives
PdfStepsAgree ==
    pdf_pc \in {"returned", "raised"} => pdf_out = _process_pdf(pdf_doc, TRUE)


(***************************************************************************)
(* Properties of _process_pdf (SpecPdf)                                    *)
(***************************************************************************)
\* _process_pdf has returned or raised
PdfEnded == pdf_pc \in {"returned", "raised"}

\* the pages whose native extraction raises
FailedPages == {n \in 1..Len(pdf_doc.pages) : ~pdf_doc.pages[n].native.ok}

\* the number of characters page.get_text() gives over all pages
RECURSIVE NativeLength(_)
NativeLength(pages) ==
    IF pages = <<>> THEN 0 ELSE Len(Head(pages).native.text) + NativeLength(Tail(pages))

\* t occurs in s as a block
Contains(s, t) == \E i \in 0..(Len(s) - Len(t)) : SubSeq(s, i + 1, i + Len(t)) = t

\* the number of OCR markers "[OCR Page " in a text
CountMarks(s) ==
    Cardinality({i \in 0..(Len(s) - Len(OCR_MARK)) :
                    SubSeq(s, i + 1, i + Len(OCR_MARK)) = OCR_MARK})

\* C16: for a document in which native extraction raises on some page while
\* the other pages give text that meets the threshold, _process_pdf returns a
\* text that holds the native text of every other page and is not empty.
C16_FailedPageSkipped ==
    ( /\ PdfEnded
      /\ pdf_doc.opens
      /\ FailedPages # {}
      /\ NativeLength(pdf_doc.pages) >= MIN_TEXT_LENGTH )
        => /\ pdf_pc = "returned"
           /\ pdf_out.text # <<>>
           /\ \A n \in 1..Len(pdf_doc.pages) :
                n \notin FailedPages => Contains(pdf_out.text, pdf_doc.pages[n].native.text)

\* native extraction raises: the document does not open or a page raises
NativeRaises == ~pdf_doc.opens \/ FailedPages # {}

\* C17: _run_ocr is called if and only if native extraction raises or the
\* natively extracted text has fewer than MIN_TEXT_LENGTH characters; otherwise
\* the returned content is the pages' native text in page order, without an
\* OCR marker, and a document within the page limit gets no warning.
C17_OcrIffSparseOrRaised ==
    PdfEnded =>
        /\ (pdf_ocr > 0) <=> (NativeRaises \/ NativeLength(pdf_doc.pages) < MIN_TEXT_LENGTH)
        /\ (~NativeRaises /\ NativeLength(pdf_doc.pages) >= MIN_TEXT_LENGTH) =>
              /\ pdf_pc = "returned"
              /\ pdf_out.text = _clean_text(NativeText(pdf_doc.pages))
              /\ CountMarks(pdf_out.text) = 0
              /\ Len(pdf_doc.pages) <= MAX_PAGES =>
                    check_page_count(Len(pdf_doc.pages)).valid

\* C18: when a document of N pages that opens is routed to OCR, _process_pdf
\* returns a text with exactly N OCR markers, also when OCR fails on a page.
C18_OneOcrBlockPerPage ==
    (PdfEnded /\ pdf_doc.opens /\ pdf_ocr > 0) =>
        /\ pdf_pc = "returned"
        /\ CountMarks(pdf_out.text) = Len(pdf_doc.pages)


(***************************************************************************)
(* Properties of the batch of scans and failing files (SpecScan)           *)
(***************************************************************************)
\* an image-only PDF: it opens and no page has native text
IsScan(f) ==
    /\ f.ext = ".pdf"
    /\ f.opens
    /\ f.pages # <<>>
    /\ \A n \in 1..Len(f.pages) : f.pages[n].native = Returned(<<>>)

\* the OCR marker of page n, "[OCR Page <n-1>]"
MarkOf(n) == OCR_MARK \o <<48 + (n - 1), 93>>

\* C19: in a returned batch every submitted file has an entry; an image on
\* which OCR fails has empty content and a warning; and a scanned PDF with a
\* page on which OCR fails has a warning while its other pages were still
\* processed (their OCR blocks are in the content).
C19_OcrFailureContained ==
    dp_pc = "returned" =>
        /\ DOMAIN dp_results = SubmittedPaths
        /\ \A p \in DOMAIN dp_results :
             LET f == FileAt(p) IN
             /\ (f.ext \in {".png", ".jpg", ".jpeg"} /\ ~f.lib.ok) =>
                    /\ dp_results[p].content = <<>>
                    /\ dp_results[p].warnings # <<>>
             /\ (IsScan(f) /\ \E n \in 1..Len(f.pages) : ~f.pages[n].ocr.ok) =>
                    /\ dp_results[p].warnings # <<>>
                    /\ \A n \in 1..Len(f.pages) :
                         f.pages[n].ocr.ok => Contains(dp_results[p].content, MarkOf(n))

\* worker i has created its temporary copy
CopyMade(i) == dp_fut[i].state # "queued" /\ EarlyError(FileAt(dp_files[i])) = ""

\* C20: the temporary copy of a worker is gone once the worker has exited,
\* whether it returned or raised while copying, extracting or building the
\* metadata; when process_batch has returned no temporary copy exists.
C20_TempCopiesDeleted ==
    /\ \A i \in 1..Len(dp_fut) : dp_fut[i].state = "done" => i \notin dp_tmp
    /\ \A i \in 1..Len(dp_fut) : dp_fut[i].state = "running" => i \in dp_tmp
    /\ dp_pc = "returned" => dp_tmp = {}

\* C20 witness: a returned batch whose three workers each made a copy and
\* raised, one while copying, one in the extractor and one in the metadata
\* generation; no copy is left.
C20_Witness ==
    /\ dp_pc = "returned"
    /\ dp_files = <<"locked.txt", "t.png", "meta.pdf">>
    /\ \A i \in 1..3 : CopyMade(i)
    /\ dp_fut[1].outcome.err = "Permission denied"
    /\ dp_fut[2].outcome.err = "Tesseract OCR not installed"
    /\ dp_fut[3].outcome.err = "metadata failed"
    /\ dp_tmp = {}


(***************************************************************************)
(* The thread pools under fair scheduling: a free pool thread takes the    *)
(* next queued task, and a running worker comes to its end                 *)
(***************************************************************************)
\* no call is in progress
PoolInit == ValIdle /\ deadline = FALSE /\ DPIdle /\ PPIdle /\ FunIdle

\* the paths of the batches whose scheduling is followed: a file that is
\* extracted, one whose extractor raises and one without an extractor
PoolPaths == {"s.txt", "d.docx", "x.exe"}

\* DocumentProcessor.process_batch(file_paths) is called: lines 41-46, every
\* task is submitted
DPCall ==
    /\ dp_pc = "idle" /\ pp_pc = "idle"
    /\ \E files \in SeqsUpTo(PoolPaths, MaxBatch) :
         /\ dp_files' = files
         /\ dp_fut' = [i \in 1..Len(files) |-> [state |-> "queued", outcome |-> NoOutcome]]
    /\ dp_pc' = "collect"
    /\ UNCHANGED <<dp_tmp, dp_results, dp_i, deadline, valVars, ppVars, funVars>>

\* ParallelProcessor.process_batch(tasks, process_func, timeout) is called:
\* lines 24-36, every task is submitted
PPCall ==
    /\ dp_pc = "idle" /\ pp_pc = "idle"
    /\ \E tasks \in SeqsUpTo(PPTasks, MaxTasks) :
         /\ pp_tasks' = tasks
         /\ pp_fut' = [i \in 1..Len(tasks) |-> [state |-> "queued", outcome |-> PPPending]]
    /\ pp_rlimit' \in BOOLEAN
    /\ pp_pc' = "collect"
    /\ UNCHANGED <<pp_yielded, pp_results, rlimit_as, deadline, valVars, dpVars, funVars>>

PoolNext == DPCall \/ PPCall \/ BatchNext

SpecPoolFair ==
    /\ PoolInit /\ [][PoolNext]_vars
    /\ WF_vars(\E i \in 1..MaxBatch + 1 : DPStart(i))
    /\ WF_vars(\E i \in 1..MaxBatch + 1 : DPFinish(i))
    /\ WF_vars(\E i \in 1..MaxTasks + 1 : PPStart(i))
    /\ WF_vars(\E i \in 1..MaxTasks + 1 : PPFinish(i))

\* at most PARALLEL_WORKERS workers execute, in either pool
BoundedRunning ==
    /\ Cardinality(Running(dp_fut)) <= PARALLEL_WORKERS
    /\ Cardinality(Running(pp_fut)) <= PARALLEL_WORKERS

\* task i of a pool waits in the queue
Queued(fut, i) == i \in 1..Len(fut) /\ fut[i].state = "queued"

\* no task of either pool waits in the queue (a task that has left the queue
\* never returns to it)
NoneQueued ==
    /\ \A i \in 1..Len(dp_fut) : ~Queued(dp_fut, i)
    /\ \A i \in 1..Len(pp_fut) : ~Queued(pp_fut, i)

\* C21: at every moment at most PARALLEL_WORKERS workers are executing; the
\* other submitted tasks wait in the queue, and every queued task is
\* eventually started, workers coming to their end.
C21_BoundedConcurrency == []BoundedRunning /\ (~NoneQueued ~> NoneQueued)

\* C21 witness: PARALLEL_WORKERS workers are executing while a third task of
\* the batch waits in the queue.
C21_Witness ==
    /\ Len(dp_fut) = 3
    /\ Cardinality(Running(dp_fut)) = PARALLEL_WORKERS
    /\ Queued(dp_fut, 3)

(***************************************************************************)
(* The outcomes DocumentProcessor.process_batch reports to its caller       *)
(***************************************************************************)
\* the file has no entry in self.processors: line 83 raises ValueError
Unsupported(p) == FileAt(p).ext \notin processors

\* the file has an extractor and the extractor raises on its copy
ExtractorRaised(p) ==
    /\ ~Unsupported(p)
    /\ FileAt(p).readable
    /\ ~processor(FileAt(p), Flushed(FileAt(p))).ok

\* two entries built by the except clause of process_batch (lines 57-62) are
\* of one kind: the same content, the same metadata and one warning with the
\* same "Processing failed" prefix, whatever str(e) is
SameKind(e1, e2) ==
    /\ e1.content = e2.content
    /\ e1.metadata = e2.metadata
    /\ Len(e1.warnings) = 1 /\ Len(e2.warnings) = 1
    /\ e1.warnings[1][1] = e2.warnings[1][1]

\* C22: what a returned batch reports for a file with an unsupported extension
\* is of a different kind than the 'Processing failed' warning entry reported
\* for a supported file whose extractor raised.
C22_UnsupportedDistinctKind ==
    dp_pc = "returned" =>
        \A p, q \in DOMAIN dp_results :
            (Unsupported(p) /\ ExtractorRaised(q)) => ~SameKind(dp_results[p], dp_results[q])

\* C23: a call of process_batch with an empty file list does not return
\* normally (with an empty result); it is signalled to the caller as an error.
C23_EmptyListIsHardError == dp_files = <<>> => dp_pc # "returned"

(***************************************************************************)
(* DocumentProcessor._process_csv and _process_excel, one statement at a    *)
(* time.  A table file has a header line naming its columns a, b, c and     *)
(* lines of ncols fields; a field is empty or holds "x".                   *)
(***************************************************************************)
MaxCols == 3
MaxRows == 2

\* "nan", as to_markdown writes a missing value
T_nan == <<110, 97, 110>>

\* the text of a field: empty, or "x"
CellTexts == {<<>>, <<120>>}

\* a line below the header: its ncols fields, or <<>> for a line without any
\* character
TabLines(n) == [1..n -> CellTexts] \cup {<<>>}

TabFiles ==
    UNION { {[ext |-> e, ncols |-> n, lines |-> l] :
                e \in {".csv", ".xlsx"}, l \in SeqsUpTo(TabLines(n), MaxRows)} :
            n \in 1..MaxCols }

\* the elements of s at the positions in K, in their order
Pick(s, K) ==
    LET idx == SelectSeq([i \in 1..Len(s) |-> i], LAMBDA i : i \in K)
    IN  [n \in 1..Len(idx) |-> s[idx[n]]]

\* the row of cells a line stands for; an empty field is a missing value
RowOf(file, line) == IF line = <<>> THEN [j \in 1..file.ncols |-> <<>>] ELSE line

\* a line pandas' parser takes for blank: no character on it (the line of a
\* one-column file whose only field is empty is such a line)
IsBlankLine(file, line) == line = <<>> \/ (file.ncols = 1 /\ line = << <<>> >>)

\* pd.read_csv(file_path): skip_blank_lines is True by default
read_csv(file) ==
    LET kept == SelectSeq(file.lines, LAMBDA l : ~IsBlankLine(file, l))
    IN  [cols |-> [j \in 1..file.ncols |-> j],
         rows |-> [i \in 1..Len(kept) |-> RowOf(file, kept[i])]]

\* pd.read_excel(file_path, engine='openpyxl')
read_excel(file) ==
    [cols |-> [j \in 1..file.ncols |-> j],
     rows |-> [i \in 1..Len(file.lines) |-> RowOf(file, file.lines[i])]]

\* df.dropna(how='all')
dropna_rows(df) ==
    [df EXCEPT !.rows = SelectSeq(df.rows, LAMBDA r : \E k \in 1..Len(r) : r[k] # <<>>)]

\* df.dropna(axis=1, how='all'): a column without any value goes, so every
\* column of a frame without rows
dropna_cols(df) ==
    LET K == {k \in 1..Len(df.cols) : \E i \in 1..Len(df.rows) : df.rows[i][k] # <<>>}
    IN  [cols |-> Pick(df.cols, K),
         rows |-> [i \in 1..Len(df.rows) |-> Pick(df.rows[i], K)]]

RECURSIVE Flatten(_)
Flatten(ss) == IF ss = <<>> THEN <<>> ELSE Head(ss) \o Flatten(Tail(ss))

\* one line of the pipe table: "| c1 | c2 |"
PipeLine(cells) == <<124>> \o Flatten([k \in 1..Len(cells) |-> <<32>> \o cells[k] \o <<32, 124>>])

\* df.to_markdown(index=False): the header line, the rule under it and a line
\* for every row, joined by '\n'; a missing value is written nan.  The
\* padding of the columns to one width is left out (the substitution of \s+
\* in _clean_text reduces it to one space), and the rule is "---" per column.
to_markdown(df) ==
    IF df.cols = <<>> THEN <<>>
    ELSE LET header == PipeLine([k \in 1..Len(df.cols) |-> <<96 + df.cols[k]>>])
             rule == <<124>> \o Flatten([k \in 1..Len(df.cols) |-> <<45, 45, 45, 124>>])
             body == [i \in 1..Len(df.rows) |->
                        <<10>> \o PipeLine([k \in 1..Len(df.cols) |->
                            IF df.rows[i][k] = <<>> THEN T_nan ELSE df.rows[i][k]])]
         IN  header \o <<10>> \o rule \o Flatten(body)

_process_csv(file) == _clean_text(to_markdown(read_csv(file)))

_process_excel(file) == _clean_text(to_markdown(dropna_cols(dropna_rows(read_excel(file)))))

\* nothing but a table extractor is running
TabInit ==
    /\ ValIdle /\ deadline = FALSE /\ DPIdle /\ PPIdle /\ CleanIdle /\ PdfIdle /\ ChunkIdle /\ SessIdle
    /\ tab_file \in TabFiles
    /\ tab_df = [cols |-> <<>>, rows |-> <<>>]
    /\ tab_pc = "read"
    /\ tab_out = <<>>

\* line 172, line 177
TabRead ==
    /\ tab_pc = "read"
    /\ tab_df' = IF tab_file.ext = ".csv" THEN read_csv(tab_file) ELSE read_excel(tab_file)
    /\ tab_pc' = IF tab_file.ext = ".csv" THEN "render" ELSE "drop"
    /\ UNCHANGED <<tab_file, tab_out, valVars, deadline, dpVars, ppVars, cleanVars, pdfVars, chunkVars, sessVars>>

\* line 178 (_process_excel only)
TabDrop ==
    /\ tab_pc = "drop"
    /\ tab_df' = dropna_cols(dropna_rows(tab_df))
    /\ tab_pc' = "render"
    /\ UNCHANGED <<tab_file, tab_out, valVars, deadline, dpVars, ppVars, cleanVars, pdfVars, chunkVars, sessVars>>

\* line 173, line 179
TabRender ==
    /\ tab_pc = "render"
    /\ tab_out' = _clean_text(to_markdown(tab_df))
    /\ tab_pc' = "returned"
    /\ UNCHANGED <<tab_file, tab_df, valVars, deadline, dpVars, ppVars, cleanVars, pdfVars, chunkVars, sessVars>>

TabNext == TabRead \/ TabDrop \/ TabRender

SpecTable == TabInit /\ [][TabNext]_vars

\* the statements give what the functions give
TabStepsAgree ==
    tab_pc = "returned" =>
        tab_out = IF tab_file.ext = ".csv" THEN _process_csv(tab_file)
                  ELSE _process_excel(tab_file)

\* the table of the file, every line a row
TableOf(file) == read_excel(file)

\* the table without its fully empty rows and fully empty columns: the rows
\* and the columns with at least one non-empty cell, in their order
Kept(t) ==
    LET R == {i \in 1..Len(t.rows) : \E k \in 1..Len(t.cols) : t.rows[i][k] # <<>>}
        K == {k \in 1..Len(t.cols) : \E i \in 1..Len(t.rows) : t.rows[i][k] # <<>>}
        rows == Pick(t.rows, R)
    IN  [cols |-> Pick(t.cols, K), rows |-> [i \in 1..Len(rows) |-> Pick(rows[i], K)]]

\* C24: for a CSV file as for a spreadsheet, the returned text is the
\* rendering of the table without its fully empty rows and fully empty
\* columns, the other rows and columns kept in their order.
C24_EmptyRowsColsDropped ==
    tab_pc = "returned" => tab_out = _clean_text(to_markdown(Kept(TableOf(tab_file))))

(***************************************************************************)
(* The memory ceiling of the workers                                       *)
(***************************************************************************)
\* worker i of DocumentProcessor.process_batch is in lines 85-100 of
\* _process_single, where the extractor is called
InExtractor(i) == i \in Running(dp_fut)

\* worker i of ParallelProcessor.process_batch has passed setrlimit and is in
\* func(task), line 59
InTaskFunction(i) == i \in Running(pp_fut) /\ pp_rlimit

\* C25: whenever a worker of either orchestrator is in its extractor or task
\* function, the memory ceiling Settings.MAX_MEMORY has been applied.
C25_CeilingBeforeTask ==
    /\ \A i \in 1..Len(dp_fut) : InExtractor(i) => rlimit_as = "MAX_MEMORY"
    /\ \A i \in 1..Len(pp_fut) : InTaskFunction(i) => rlimit_as = "MAX_MEMORY"

(***************************************************************************)
(* upload_documents (core/app.py), lines 396-407: the chunks of the text   *)
(* splitter are filtered and the kept ones joined                          *)
(***************************************************************************)
MaxChunks == 3

\* n times the character c
Rep(c, n) == [i \in 1..n |-> c]

\* a chunk: whitespace, then x letters around y underscores and z periods,
\* then whitespace
ChunkText(lead, x, y, z, trail) ==
    Rep(32, lead) \o <<97>> \o Rep(95, y) \o Rep(46, z) \o Rep(97, x - 1) \o Rep(10, trail)

\* Document(page_content=...)
Document(text) == [page_content |-> text]

\* chunks on both sides of each threshold, with and without whitespace
\* around them
Chunks ==
    { Document(ChunkText(0, 100, 0, 0, 0)),
      Document(ChunkText(0, 101, 0, 0, 0)),
      Document(ChunkText(0, 71, 30, 0, 0)),
      Document(ChunkText(0, 70, 31, 0, 0)),
      Document(ChunkText(0, 91, 0, 10, 0)),
      Document(ChunkText(0, 90, 0, 11, 0)),
      Document(ChunkText(1, 100, 0, 0, 1)),
      Document(ChunkText(2, 70, 31, 0, 1)) }

\* str.count(c)
Count(s, c) == Len(SelectSeq(s, LAMBDA x : x = c))

\* the condition of lines 401-404 with len(content) >= 100
KeepsChunk_inclusive(doc) ==
    LET content == Strip(doc.page_content) IN
    /\ Len(content) >= 100
    /\ ~(10 * Count(content, 95) > Len(content) * 3)
    /\ ~(10 * Count(content, 46) > Len(content) * 1)

\* lines 401-404; n > len(content) * 0.3 is 10 * n > len(content) * 3 (the
\* float product decides as the exact one for every length up to 5000)
KeepsChunk(doc) ==
    LET content == Strip(doc.page_content) IN
    /\ Len(content) > 100
    /\ ~(10 * Count(content, 95) > Len(content) * 3)
    /\ ~(10 * Count(content, 46) > Len(content) * 1)

\* "\n\n".join([doc.page_content for doc in docs])
RECURSIVE JoinDocs(_)
JoinDocs(docs) ==
    IF docs = <<>> THEN <<>>
    ELSE IF Len(docs) = 1 THEN docs[1].page_content
    ELSE docs[1].page_content \o <<10, 10>> \o JoinDocs(Tail(docs))

\* nothing but the chunk filter is running
FilterInit ==
    /\ ValIdle /\ deadline = FALSE /\ DPIdle /\ PPIdle /\ CleanIdle /\ PdfIdle /\ TabIdle /\ SessIdle
    /\ cf_splits \in SeqsUpTo(Chunks, MaxChunks)
    /\ cf_i = 1
    /\ cf_kept = <<>>
    /\ cf_text = <<>>
    /\ cf_pc = "filter"

\* one turn of `for doc in splits`, lines 400-405
FilterStep ==
    /\ cf_pc = "filter"
    /\ cf_i <= Len(cf_splits)
    /\ cf_kept' = IF KeepsChunk(cf_splits[cf_i]) THEN Append(cf_kept, cf_splits[cf_i])
                  ELSE cf_kept
    /\ cf_i' = cf_i + 1
    /\ UNCHANGED <<cf_splits, cf_text, cf_pc, valVars, deadline, dpVars, ppVars,
                   cleanVars, pdfVars, tabVars, sessVars>>

\* line 407
FilterJoin ==
    /\ cf_pc = "filter"
    /\ cf_i > Len(cf_splits)
    /\ cf_text' = JoinDocs(cf_kept)
    /\ cf_pc' = "joined"
    /\ UNCHANGED <<cf_splits, cf_i, cf_kept, valVars, deadline, dpVars, ppVars,
                   cleanVars, pdfVars, tabVars, sessVars>>

FilterNext == FilterStep \/ FilterJoin

SpecFilter == FilterInit /\ [][FilterNext]_vars

\* the chunk is one the filter is to keep: more than 100 characters once
\* stripped, underscores at most 30% and periods at most 10% of that length
Accepted(doc) ==
    LET content == Strip(doc.page_content) IN
    /\ Len(content) > 100
    /\ 10 * Count(content, 95) <= 3 * Len(content)
    /\ 10 * Count(content, 46) <= Len(content)

\* C26: the filter keeps a chunk if and only if its stripped length exceeds
\* 100, its underscores are at most 30% and its periods at most 10% of its
\* length; the kept chunks stand in their original order and are joined in
\* that order, the result being a function of the splitter's output.
C26_ChunkFilter ==
    cf_pc = "joined" =>
        /\ cf_kept = SelectSeq(cf_splits, Accepted)
        /\ cf_text = JoinDocs(SelectSeq(cf_splits, Accepted))

\* C26 witness: the filter has run over three chunks, dropped the second (of
\* exactly 100 characters) and kept the first and the third, which differ.
C26_Witness ==
    /\ cf_pc = "joined"
    /\ Len(cf_splits) = 3
    /\ Len(Strip(cf_splits[2].page_content)) = 100
    /\ cf_kept = <<cf_splits[1], cf_splits[3]>>
    /\ cf_splits[1] # cf_splits[3]

(***************************************************************************)
(* The result map of ParallelProcessor.process_batch                       *)
(***************************************************************************)
\* C27: when ParallelProcessor.process_batch returns, results holds exactly
\* one entry per submitted task, under the task's id, also when two tasks
\* carry the same id or a task has no 'id' key.
C27_OneEntryPerTask ==
    pp_pc = "returned" =>
        /\ Cardinality(DOMAIN pp_results) = Len(pp_tasks)
        /\ \A i \in 1..Len(pp_tasks) : pp_tasks[i].id \in DOMAIN pp_results

(***************************************************************************)
(* The temporary copy as the extractor finds it                            *)
(***************************************************************************)
\* the number of bytes open(tmp_path) can read when processor(tmp_path) is
\* called (line 92): tmp is still open, and what tmp.write left in its buffer
\* has not reached the file
VisibleSize(f) == IF Flushed(f) THEN f.size ELSE 0

\* the leading bytes open(tmp_path) can read at that moment
VisibleBytes(f) == IF Flushed(f) THEN f.bytes ELSE <<>>

\* C28: while a worker is in its extractor, the bytes readable from its
\* temporary copy are exactly the bytes of the source file, whatever the
\* size of the file.
C28_CopyCompleteWhenOpened ==
    \A i \in 1..Len(dp_fut) :
        (InExtractor(i) /\ FileAt(dp_files[i]).readable) =>
            /\ VisibleSize(FileAt(dp_files[i])) = FileAt(dp_files[i]).size
            /\ VisibleBytes(FileAt(dp_files[i])) = FileAt(dp_files[i]).bytes

(***************************************************************************)
(* Clean files of the allowed formats under validate_file                  *)
(***************************************************************************)
\* Settings.ALLOWED_EXTENSIONS
ALLOWED_EXTENSIONS == {".pdf", ".docx", ".txt", ".png", ".jpg", ".jpeg", ".csv", ".xlsx"}

\* printable ASCII and nothing else
PlainText(b) == b # <<>> /\ \A i \in 1..Len(b) : b[i] \in 32..126

\* the file is what its extension says: text for .txt and .csv, a ZIP
\* container for .xlsx, and for the other formats content libmagic takes for
\* the format
GenuineContent(f) ==
    IF f.ext \in {".txt", ".csv"} THEN PlainText(f.bytes)
    ELSE IF f.ext = ".xlsx" THEN StartsWith(f.bytes, SIG_ZIP)
    ELSE f.ext \in DOMAIN FormatMime /\ magic_from_file(f) = FormatMime[f.ext]

\* a clean, in-size file of an allowed extension: genuine content, within
\* MAX_FILE_SIZE, and no malicious pattern in it
CleanFile(f) ==
    /\ f.ext \in ALLOWED_EXTENSIONS
    /\ GenuineContent(f)
    /\ f.size <= MAX_FILE_SIZE
    /\ _check_malware_patterns(f).valid

\* C29: validate_file returns valid for every clean, in-size file of an
\* allowed extension, in particular for a plain-text .txt or .csv file
\* without a malicious pattern.
C29_CleanFileValid == (v_pc = 0 /\ CleanFile(v_file)) => v_result.valid

(***************************************************************************)
(* The sessions of the web layer (core/app.py): upload_config,             *)
(* upload_documents, get_session and get_session_data over the dict        *)
(* `sessions` and the table document_sessions.  Time is counted in hours;  *)
(* the database answers every call.                                        *)
(***************************************************************************)
SESSION_EXPIRE_HOURS == 2

MaxTime == 4

\* the values uuid.uuid4() gives
SessionIds == {"s1", "s2"}

\* document_metadata holds no 'created_at'
NoTime == -1

Response(op, id, outcome) == [op |-> op, id |-> id, outcome |-> outcome, at |-> now]

\* create_session_record: the row of a new session
NewRecord == [status |-> "config_uploaded", created_at |-> now]

\* update_session_record: document_metadata is replaced by a dict of status,
\* completed_at and the given metadata
UpdatedRecord == [status |-> "analysis_complete", created_at |-> NoTime]

\* nothing but the web application is running
SessInit ==
    /\ ValIdle /\ deadline = FALSE /\ DPIdle /\ PPIdle /\ CleanIdle /\ PdfIdle
    /\ TabIdle /\ ChunkIdle /\ SessIdle

\* POST /upload_config: a rejected file, or a new session in the cache and
\* in the database
upload_config ==
    /\ \/ /\ resp' = Response("upload_config", "none", "Invalid config file")
          /\ UNCHANGED <<sessions, db, born>>
       \/ \E id \in SessionIds \ DOMAIN db :
            /\ sessions' = Put(sessions, id, [expiry |-> now + SESSION_EXPIRE_HOURS])
            /\ db' = Put(db, id, NewRecord)
            /\ born' = Put(born, id, now)
            /\ resp' = Response("upload_config", id, "success")
    /\ UNCHANGED <<now, valVars, deadline, dpVars, ppVars, cleanVars, pdfVars, tabVars, chunkVars>>

\* lines 293-301: the cache after the session was looked up
CacheAfterLookup(id) ==
    IF id \in DOMAIN sessions \/ id \notin DOMAIN db THEN sessions
    ELSE Put(sessions, id, [expiry |-> now + SESSION_EXPIRE_HOURS])

\* what upload_documents answers once the session was accepted: a rejection
\* of the documents, the extracted data (the row is updated), the raw
\* response of the model, or a failed analysis
AfterAcceptance ==
    {"No documents", "success", "partial_success", "Analysis failed"}

\* POST /upload_documents with session_id = id
upload_documents(id) ==
    /\ IF id \notin DOMAIN sessions /\ id \notin DOMAIN db
       THEN /\ resp' = Response("upload_documents", id, "Invalid session ID")
            /\ UNCHANGED <<sessions, db>>
       ELSE /\ sessions' = CacheAfterLookup(id)
            /\ IF now > CacheAfterLookup(id)[id].expiry
               THEN /\ resp' = Response("upload_documents", id, "Expired session ID")
                    /\ db' = db
               ELSE \E outcome \in AfterAcceptance :
                      /\ resp' = Response("upload_documents", id, outcome)
                      /\ db' = IF outcome = "success" THEN Put(db, id, UpdatedRecord) ELSE db
    /\ UNCHANGED <<now, born, valVars, deadline, dpVars, ppVars, cleanVars, pdfVars, tabVars, chunkVars>>

\* GET /session/<id>
get_session(id) ==
    /\ IF id \in DOMAIN sessions
       THEN /\ resp' = Response("get_session", id, "active")
            /\ sessions' = sessions
       ELSE IF id \notin DOMAIN db
       THEN /\ resp' = Response("get_session", id, "Session not found")
            /\ sessions' = sessions
       ELSE IF db[id].created_at = NoTime
       THEN /\ resp' = Response("get_session", id, "KeyError")
            /\ sessions' = sessions
       ELSE /\ sessions' = Put(sessions, id,
                               [expiry |-> db[id].created_at + SESSION_EXPIRE_HOURS])
            /\ resp' = Response("get_session", id, "active")
    /\ UNCHANGED <<now, db, born, valVars, deadline, dpVars, ppVars, cleanVars, pdfVars, tabVars, chunkVars>>

\* GET /session_data/<id>
get_session_data(id) ==
    /\ resp' = Response("get_session_data", id,
                        IF id \in DOMAIN db THEN db[id].status ELSE "Session not found")
    /\ UNCHANGED <<now, sessions, db, born, valVars, deadline, dpVars, ppVars, cleanVars, pdfVars, tabVars, chunkVars>>

\* the server process starts anew: the module-level dict is empty again, the
\* database keeps its rows
Restart ==
    /\ sessions # <<>>
    /\ sessions' = <<>>
    /\ UNCHANGED <<now, db, born, resp, valVars, deadline, dpVars, ppVars, cleanVars, pdfVars, tabVars, chunkVars>>

\* an hour passes
Hour ==
    /\ now < MaxTime
    /\ now' = now + 1
    /\ UNCHANGED <<sessions, db, born, resp, valVars, deadline, dpVars, ppVars, cleanVars, pdfVars, tabVars, chunkVars>>

SessNext ==
    \/ upload_config
    \/ \E id \in SessionIds : upload_documents(id)
    \/ \E id \in SessionIds : get_session(id)
    \/ \E id \in SessionIds : get_session_data(id)
    \/ Restart
    \/ Hour

SpecSession == SessInit /\ [][SessNext]_vars

\* the last response is upload_documents having accepted the session
SessionAccepted == resp.op = "upload_documents" /\ resp.outcome \in AfterAcceptance

\* C30: upload_documents never accepts a session later than
\* SESSION_EXPIRE_HOURS after upload_config created it, whether it finds the
\* session in the cache or reloads it from the database, and whatever calls
\* of get_session and upload_documents came before.
C30_NoAcceptanceAfterExpiry ==
    SessionAccepted => resp.at <= born[resp.id] + SESSION_EXPIRE_HOURS

====
